---------------------------- MODULE Spec2Model ----------------------------
(***************************************************************************)
(* A model of SeriousSaveEditor: the signature-stream container codec      *)
(* (src/src/signature_stream.rs), the Pascal-prefix helpers                *)
(* (src/src/helpers.rs) and the CTSEMETA codec (src/src/ctsemeta.rs).      *)
(*                                                                         *)
(* Byte streams are sequences of integers 0..255.  An Option<T> is a       *)
(* sequence of length 0 (None) or 1 (Some).  Strings are the sequences of  *)
(* their UTF-8 bytes.                                                      *)
(*                                                                         *)
(* RSA-PSS and the digests are external crates.  A digest is modelled as   *)
(* the hash-method id followed by the bytes fed to the hasher (an ideal,   *)
(* collision-free hash); a signature is a fresh byte string, and the       *)
(* variable `signed` holds the (key, digest, signature) triples pss.sign   *)
(* has produced: pss.verify succeeds exactly on those (an ideal,           *)
(* unforgeable signature scheme).                                          *)
(***************************************************************************)
EXTENDS Integers, Sequences, FiniteSets, TLC

VARIABLES
    \* ---- write_signature_stream_data: arguments and locals
    pc,                 \* position of the run: writer, delivery, reader
    endian,             \* "Little" | "Big"
    version,            \* u32
    sign_options,       \* Option<SignOptions>
    data,               \* the payload
    out,                \* the bytes written to `writer` so far
    decompressed_size,  \* the running size the writer returns
    salt,               \* rng.next_u32()
    signing_info,       \* Option<SigningInfo>
    block_index,        \* the writer's loop counter
    rng,                \* number of draws made from thread_rng
    signed,             \* the triples produced by pss.sign
    segments,           \* what each write call emitted: kind and length
    wdigests,           \* the digests the writer signed, in order
    gz,                 \* write_gz_signature_stream_data: the bytes in its writer
    \* ---- parse_signature_stream_data: arguments and locals
    stream,             \* the bytes handed to the reader
    tamper,             \* what was changed between writer and reader
    r_key_ring,         \* the reader's key ring
    r_memory_stream_name,
    r_userid,
    header,             \* the header fields the reader decoded
    verifying_info,     \* Option<VerifyingInfo>
    position,           \* the reader's offset into stream
    deinterleaved_data,
    r_block_index,
    warnings,           \* the warn! calls of the reader, in order
    rdigests,           \* the digests the reader verified, in order
    result,             \* Option<Result<payload>>
    \* ---- CTSEMeta: read_options / write_options
    m_pc,               \* position of the run: "Read", "Value", "Json", "Tree", "Done"
    m_runs,             \* number of runs of the tool on the file
    m_endian,
    m_input,            \* the bytes handed to CTSEMeta::read_options
    m_pos,              \* the reader's offset into m_input
    m_section,          \* the number of the field of CTSEMeta read next
    m_fields,           \* the fields of CTSEMeta read so far
    m_vec,              \* Option: the count and the elements read of the Vec being read
    m_result,           \* Option<BinResult<CTSEMeta>>: what read_options returned
    m_info,             \* Option<Info>: the temporary _info read_options dropped
    m_value,            \* Option<CTSEMeta>: the value held
    m_json,             \* Option: the JSON tree in the extracted file
    m_edits,            \* number of edits made to the JSON tree
    m_written,          \* Option<CTSEMeta>: the value write_options was called on
    m_out,              \* Option<bytes>: what CTSEMeta::write_options produced
    \* ---- main: the arguments of the command line
    c_pc,               \* "Args" until the memory-stream name is settled
    c_command,          \* "extract" | "create"
    c_player_profile,   \* Option: the file name of the player_profile path
    c_player_profile_extracted,
    c_memory_stream_name, \* Option: the value of -m
    c_flag,             \* -n of extract, -g of create
    c_name              \* Option: the memory-stream name settled

wvars == <<endian, version, sign_options, data, out, decompressed_size, salt,
           signing_info, block_index, rng, signed, segments, wdigests, gz>>
rvars == <<stream, tamper, r_key_ring, r_memory_stream_name, r_userid, header,
           verifying_info, position, deinterleaved_data, r_block_index,
           warnings, rdigests, result>>
mvars == <<m_pc, m_runs, m_endian, m_input, m_pos, m_section, m_fields, m_vec,
           m_result, m_info, m_value, m_json, m_edits, m_written, m_out>>
cvars == <<c_pc, c_command, c_player_profile, c_player_profile_extracted,
           c_memory_stream_name, c_flag, c_name>>
vars == <<pc, wvars, rvars, mvars, cvars>>

----------------------------------------------------------------------------
(* Bounds of the model.                                                    *)

\* The writer's block size.  The source uses 0x10000
\* (signature_stream.rs:21); the model scales it down so that payloads of
\* zero, one, two and two-and-a-bit blocks stay small.
SIGNATURE_STREAM_BLOCK_SIZE == 2

\* Length in bytes of a signature made with SignKey.GameLocal (the modulus
\* length of the key: 64 in the source's PEM), scaled down.
GameLocalSignatureLen == 2

\* The largest format version the model writes (thresholds are 2, 3, 4, 5).
MaxVersion == 5

\* The most trailing bytes a stream handed to the reader has lost.
MaxTruncate == 3

\* The most iterations of the reader's block loop that are followed: the
\* source's block_index is a u32 counted up from 0 (line 232).
MaxBlockIndex == 8

\* signature_stream.rs:312-313
GZIP_HEADER_SIZE == 24
GZIP_FOOTER_SIZE == 8

----------------------------------------------------------------------------
(* Options, bytes and integers.                                            *)

None == <<>>
Some(x) == <<x>>
IsSome(o) == Len(o) = 1
Unwrap(o) == o[1]

\* s[from..to] with 0-based offsets, `to` excluded
Slice(s, from, to) == [i \in 1..(to - from) |-> s[from + i]]
Slice4(s, pos) == <<s[pos + 1], s[pos + 2], s[pos + 3], s[pos + 4]>>

Min(a, b) == IF a <= b THEN a ELSE b

clamp(x, lo, hi) == IF x < lo THEN lo ELSE IF x > hi THEN hi ELSE x

\* TLC's integers are 32-bit signed.  An i32 is its value; a u32 is its
\* value, and the u32 values the model reads and writes stay below 2^31
\* (TLC reports an overflow, and the run fails, should one not).

\* to_le_bytes of a 32-bit value: % and \div round towards minus infinity,
\* so a negative i32 comes out in two's complement
le_bytes(v) == <<v % 256, (v \div 256) % 256, (v \div 65536) % 256,
                 (v \div 16777216) % 256>>

Reverse(s) == [i \in 1..Len(s) |-> s[Len(s) + 1 - i]]

\* to_endian_bytes!(endian, value), and write_options, of a u32 or an i32
to_endian_bytes(e, value) ==
    IF e = "Big" THEN Reverse(le_bytes(value)) ELSE le_bytes(value)

\* u32::read_options at 0-based offset pos of s (the caller checks the length)
from_endian_bytes(e, s, pos) ==
    IF e = "Big"
    THEN s[pos + 1] * 16777216 + s[pos + 2] * 65536 + s[pos + 3] * 256 + s[pos + 4]
    ELSE s[pos + 4] * 16777216 + s[pos + 3] * 65536 + s[pos + 2] * 256 + s[pos + 1]

\* i32::read_options at 0-based offset pos of s
i32_from_endian_bytes(e, s, pos) ==
    LET be == IF e = "Big" THEN Slice4(s, pos) ELSE Reverse(Slice4(s, pos))
        top == IF be[1] >= 128 THEN be[1] - 256 ELSE be[1]
    IN  top * 16777216 + be[2] * 65536 + be[3] * 256 + be[4]

RECURSIVE BitXor(_, _, _)
BitXor(a, b, bits) ==
    IF bits = 0 THEN 0
    ELSE ((a + b) % 2) + 2 * BitXor(a \div 2, b \div 2, bits - 1)

\* salt ^ (block_index + 0xB1B) on u32
BlockSalt(s, i) == BitXor(s, i + 2843, 32)


\* String::from_utf8: is s[i..] well-formed UTF-8
RECURSIVE IsUtf8From(_, _)
IsUtf8From(s, i) ==
    LET n == Len(s)
        Cont(k) == k <= n /\ s[k] >= 128 /\ s[k] <= 191
        In(k, lo, hi) == k <= n /\ s[k] >= lo /\ s[k] <= hi
        b == s[i]
    IN  IF i > n THEN TRUE
        ELSE IF b < 128 THEN IsUtf8From(s, i + 1)
        ELSE IF b >= 194 /\ b <= 223 THEN Cont(i + 1) /\ IsUtf8From(s, i + 2)
        ELSE IF b = 224 THEN In(i + 1, 160, 191) /\ Cont(i + 2) /\ IsUtf8From(s, i + 3)
        ELSE IF b = 237 THEN In(i + 1, 128, 159) /\ Cont(i + 2) /\ IsUtf8From(s, i + 3)
        ELSE IF b >= 225 /\ b <= 239 THEN Cont(i + 1) /\ Cont(i + 2) /\ IsUtf8From(s, i + 3)
        ELSE IF b = 240 THEN In(i + 1, 144, 191) /\ Cont(i + 2) /\ Cont(i + 3)
                             /\ IsUtf8From(s, i + 4)
        ELSE IF b = 244 THEN In(i + 1, 128, 143) /\ Cont(i + 2) /\ Cont(i + 3)
                             /\ IsUtf8From(s, i + 4)
        ELSE IF b >= 241 /\ b <= 243 THEN Cont(i + 1) /\ Cont(i + 2) /\ Cont(i + 3)
                                          /\ IsUtf8From(s, i + 4)
        ELSE FALSE

IsUtf8(s) == IsUtf8From(s, 1)

\* helpers.rs write_pascal_string: u32 length, then the bytes
write_pascal_string(value, e) == to_endian_bytes(e, Len(value)) \o value

\* A read yields the value and the offset after it, or an error and the
\* offset it occurred at.
Parsed(value, pos) == [ok |-> TRUE, value |-> value, pos |-> pos, err |-> ""]
Failed(err, pos) == [ok |-> FALSE, value |-> <<>>, pos |-> pos, err |-> err]

\* helpers.rs parse_pascal_string at 0-based offset pos of s: a u32 count,
\* count bytes, and String::from_utf8 of them
parse_pascal_string(s, pos, e) ==
    IF pos + 4 > Len(s) THEN Failed("Io", pos)
    ELSE LET count == from_endian_bytes(e, s, pos)
         IN  IF pos + 4 + count > Len(s) THEN Failed("Io", pos + 4)
             ELSE LET utf8 == Slice(s, pos + 4, pos + 4 + count)
                  IN  IF IsUtf8(utf8) THEN Parsed(utf8, pos + 4 + count)
                      ELSE Failed("Custom", pos + 4)

----------------------------------------------------------------------------
(* Hash methods, keys and the key ring.                                    *)

HashMethodSha1 == 4
HashMethodTiger == 5
HashMethodSha256 == 6

\* impl TryFrom<u32> for HashMethod
HashMethodTryFrom(value) ==
    IF value \in {HashMethodSha1, HashMethodTiger, HashMethodSha256}
    THEN Some(value) ELSE None

SIGNATURE_STREAM_HASH_METHOD == HashMethodSha1

\* b"SIGSTRM12GIS"
SignatureStreamMagic == <<83, 73, 71, 83, 84, 82, 77, 49, 50, 71, 73, 83>>

\* "SignKey.GameLocal"
SIGN_KEY_GAME_LOCAL_NAME ==
    <<83, 105, 103, 110, 75, 101, 121, 46, 71, 97, 109, 101, 76, 111, 99, 97, 108>>
\* "Signkey.EditorSignature"
SIGN_KEY_EDITOR_SIGNATURE ==
    <<83, 105, 103, 110, 107, 101, 121, 46, 69, 100, 105, 116, 111, 114, 83, 105,
      103, 110, 97, 116, 117, 114, 101>>
\* "SignKey.LicenseSignature"
SIGN_KEY_LICENSE_SIGNATURE ==
    <<83, 105, 103, 110, 75, 101, 121, 46, 76, 105, 99, 101, 110, 115, 101, 83,
      105, 103, 110, 97, 116, 117, 114, 101>>
\* "SignKey.OfficialSignature"
SIGN_KEY_OFFICIAL_SIGNATURE ==
    <<83, 105, 103, 110, 75, 101, 121, 46, 79, 102, 102, 105, 99, 105, 97, 108,
      83, 105, 103, 110, 97, 116, 117, 114, 101>>

\* impl Default for KeyRing: three entries with a private key, one without.
\* len is the modulus length in bytes, which is the length of a signature;
\* the 2048-bit keys are four times as long as the 512-bit one, the
\* 4096-bit one eight times.
DefaultKeyRing ==
    { [name |-> SIGN_KEY_GAME_LOCAL_NAME, private |-> TRUE,
       len |-> GameLocalSignatureLen],
      [name |-> SIGN_KEY_EDITOR_SIGNATURE, private |-> TRUE,
       len |-> 4 * GameLocalSignatureLen],
      [name |-> SIGN_KEY_LICENSE_SIGNATURE, private |-> TRUE,
       len |-> 4 * GameLocalSignatureLen],
      [name |-> SIGN_KEY_OFFICIAL_SIGNATURE, private |-> FALSE,
       len |-> 8 * GameLocalSignatureLen] }

\* key_ring.get(name)
KeyRingGet(key_ring, name) ==
    IF \E k \in key_ring : k.name = name
    THEN Some(CHOOSE k \in key_ring : k.name = name)
    ELSE None

PrivateKeyOrPublic(key_ring, name) == KeyRingGet(key_ring, name)

\* key_ring.get(name).and_then(|keys| keys.private.clone())
PrivateKey(key_ring, name) ==
    LET keys == KeyRingGet(key_ring, name)
    IN  IF IsSome(keys) /\ Unwrap(keys).private THEN keys ELSE None

\* hasher.finalize() of a hasher of the given method fed `input`
Digest(hash_method, input) == <<hash_method>> \o input

\* The bytes pss.sign returns on the n-th draw from the rng: as long as the
\* key's modulus, and different for every draw.
SignatureBytes(key, n) == [i \in 1..key.len |-> (16 * n + i) % 256]

\* pss.verify(public_key, digest, signature) is Ok
pss_verify(key, digest, signature) == <<key.name, digest, signature>> \in signed


----------------------------------------------------------------------------
(* write_signature_stream_data                                             *)

\* the salts rng.next_u32() is modelled to return
Salts == {0, 305419896}

\* the memory-stream names and user ids callers pass ("All", "DLC"; "u1")
MemoryStreamNames == {<<65, 108, 108>>, <<68, 76, 67>>}
UserIds == {<<117, 49>>}

\* a key name that no key ring holds ("X")
UnknownKeyName == <<88>>

\* the payload of length n: byte i is a function of i, so that every
\* block differs from its neighbours
Payload(n) == [i \in 1..n |-> (37 * i + 11) % 256]

hash_size == 0
signature_related_string == <<>>
hash_method_id == SIGNATURE_STREAM_HASH_METHOD

\* lines 355-362
has_memory_stream_name ==
    IF IsSome(sign_options) /\ IsSome(Unwrap(sign_options).memory_stream_name)
    THEN 1 ELSE 0
has_userid ==
    IF IsSome(sign_options) /\ IsSome(Unwrap(sign_options).userid)
    THEN 1 ELSE 0

HeaderFieldsUserIdAtVersion2(s) ==
    SignatureStreamMagic
    \o to_endian_bytes(endian, version)
    \o to_endian_bytes(endian, SIGNATURE_STREAM_BLOCK_SIZE)
    \o to_endian_bytes(endian, hash_method_id)
    \o to_endian_bytes(endian, hash_size)
    \o to_endian_bytes(endian, s)
    \o (IF version >= 2 THEN to_endian_bytes(endian, has_memory_stream_name) ELSE <<>>)
    \o (IF version >= 2 THEN to_endian_bytes(endian, has_userid) ELSE <<>>)
    \o (IF version >= 5 THEN write_pascal_string(signature_related_string, endian)
        ELSE <<>>)

HeaderFieldsWithoutHashSize(s) ==
    SignatureStreamMagic
    \o to_endian_bytes(endian, version)
    \o to_endian_bytes(endian, SIGNATURE_STREAM_BLOCK_SIZE)
    \o to_endian_bytes(endian, hash_method_id)
    \o to_endian_bytes(endian, s)
    \o (IF version >= 2 THEN to_endian_bytes(endian, has_memory_stream_name) ELSE <<>>)
    \o (IF version >= 3 THEN to_endian_bytes(endian, has_userid) ELSE <<>>)
    \o (IF version >= 5 THEN write_pascal_string(signature_related_string, endian)
        ELSE <<>>)

\* lines 365-388: the magic, the five fixed fields and the version-gated ones
HeaderFields(s) ==
    SignatureStreamMagic
    \o to_endian_bytes(endian, version)
    \o to_endian_bytes(endian, SIGNATURE_STREAM_BLOCK_SIZE)
    \o to_endian_bytes(endian, hash_method_id)
    \o to_endian_bytes(endian, hash_size)
    \o to_endian_bytes(endian, s)
    \o (IF version >= 2 THEN to_endian_bytes(endian, has_memory_stream_name) ELSE <<>>)
    \o (IF version >= 3 THEN to_endian_bytes(endian, has_userid) ELSE <<>>)
    \o (IF version >= 5 THEN write_pascal_string(signature_related_string, endian)
        ELSE <<>>)

HeaderFieldsSizeUngated == Len(SignatureStreamMagic) + 4 + 4 + 4 + 4 + 4 + 4 + 4 + 4

\* the decompressed_size bookkeeping of lines 366-388
HeaderFieldsSize ==
    Len(SignatureStreamMagic) + 4 + 4 + 4 + 4 + 4
    + (IF version >= 2 THEN 4 ELSE 0)
    + (IF version >= 3 THEN 4 ELSE 0)
    + (IF version >= 5 THEN 4 + Len(signature_related_string) ELSE 0)

WriteHeader ==
    /\ pc = "WriteHeader"
    /\ \E s \in Salts :
         /\ salt' = s
         /\ out' = HeaderFields(s)
    /\ rng' = rng + 1
    /\ decompressed_size' = HeaderFieldsSize
    /\ segments' = <<[kind |-> "header", len |-> Len(out')]>>
    /\ pc' = "WriteHeaderSig"
    /\ UNCHANGED <<endian, version, sign_options, data, signing_info,
                   block_index, signed, wdigests, gz>>
    /\ UNCHANGED <<rvars, mvars, cvars>>

\* lines 405-428 and 436-437: what the writer feeds the header hasher
WriterHeaderDigestInput(so, signature_size) ==
    to_endian_bytes(endian, version)
    \o to_endian_bytes(endian, SIGNATURE_STREAM_BLOCK_SIZE)
    \o to_endian_bytes(endian, hash_method_id)
    \o to_endian_bytes(endian, hash_size)
    \o to_endian_bytes(endian, salt)
    \o (IF version >= 2
        THEN to_endian_bytes(endian, has_memory_stream_name)
             \o (IF version >= 4 /\ IsSome(so.memory_stream_name)
                 THEN Unwrap(so.memory_stream_name) ELSE <<>>)
        ELSE <<>>)
    \o (IF version >= 3
        THEN to_endian_bytes(endian, has_userid)
             \o (IF IsSome(so.userid) THEN Unwrap(so.userid) ELSE <<>>)
        ELSE <<>>)
    \o (IF version >= 5 THEN signature_related_string ELSE <<>>)
    \o to_endian_bytes(endian, signature_size)
    \o so.sign_key_name

WriterPrivateKeyAnyVersion ==
    IF IsSome(sign_options)
    THEN PrivateKey(Unwrap(sign_options).key_ring, Unwrap(sign_options).sign_key_name)
    ELSE None

\* lines 390-404: the writer signs iff version >= 3, sign options are given
\* and the key ring holds a private key under sign_key_name
WriterPrivateKey ==
    IF version >= 3 /\ IsSome(sign_options)
    THEN PrivateKey(Unwrap(sign_options).key_ring, Unwrap(sign_options).sign_key_name)
    ELSE None

\* lines 390-493.  The keys of the ring are all long enough for the PSS
\* encoding, so hash_method.signature_size and pss.sign return Ok: the
\* probe is draw rng, the header signature draw rng + 1.
WriteHeaderSig ==
    /\ pc = "WriteHeaderSig"
    /\ IF IsSome(WriterPrivateKey)
       THEN LET so == Unwrap(sign_options)
                private_key == Unwrap(WriterPrivateKey)
                probe == SignatureBytes(private_key, rng)
                signature_size == Len(probe)
                digest == Digest(hash_method_id,
                                 WriterHeaderDigestInput(so, signature_size))
                signature == SignatureBytes(private_key, rng + 1)
                header_signature_stuff_size ==
                    4 + 4 + Len(so.sign_key_name) + Len(signature)
            IN  /\ out' = out \o to_endian_bytes(endian, Len(signature))
                              \o write_pascal_string(so.sign_key_name, endian)
                              \o signature
                /\ segments' = segments
                       \o <<[kind |-> "signature_size", len |-> 4],
                            [kind |-> "sign_key_name",
                             len |-> 4 + Len(so.sign_key_name)],
                            [kind |-> "header_signature", len |-> Len(signature)]>>
                /\ rng' = rng + 2
                /\ signed' = signed
                       \cup {<<private_key.name, Digest(hash_method_id, <<>>), probe>>,
                             <<private_key.name, digest, signature>>}
                /\ wdigests' = <<digest>>
                /\ signing_info' = Some([private_key |-> private_key,
                                         hash_method |-> hash_method_id,
                                         salt |-> salt,
                                         memory_stream_name_bytes |-> so.memory_stream_name,
                                         userid_bytes |-> so.userid])
                /\ decompressed_size' = decompressed_size + header_signature_stuff_size
       ELSE /\ out' = out \o to_endian_bytes(endian, 0)
            /\ segments' = segments \o <<[kind |-> "signature_size", len |-> 4]>>
            /\ signing_info' = None
            /\ decompressed_size' = decompressed_size + 4
            /\ UNCHANGED <<rng, signed, wdigests>>
    /\ block_index' = 0
    /\ pc' = "WriteBlock"
    /\ UNCHANGED <<endian, version, sign_options, data, salt, gz>>
    /\ UNCHANGED <<rvars, mvars, cvars>>

WriterBlockDigestInputGated(si, block_data) ==
    to_endian_bytes(endian, BlockSalt(si.salt, block_index))
    \o (IF version >= 4 /\ IsSome(si.memory_stream_name_bytes)
        THEN Unwrap(si.memory_stream_name_bytes) ELSE <<>>)
    \o (IF IsSome(si.userid_bytes) THEN Unwrap(si.userid_bytes) ELSE <<>>)
    \o block_data

\* lines 508-518: what the writer feeds the hasher for block block_index
WriterBlockDigestInput(si, block_data) ==
    to_endian_bytes(endian, BlockSalt(si.salt, block_index))
    \o (IF IsSome(si.memory_stream_name_bytes)
        THEN Unwrap(si.memory_stream_name_bytes) ELSE <<>>)
    \o (IF IsSome(si.userid_bytes) THEN Unwrap(si.userid_bytes) ELSE <<>>)
    \o block_data

\* lines 496-502: the bounds of block block_index
BlockStart == block_index * SIGNATURE_STREAM_BLOCK_SIZE
BlockEndOffByOne ==
    Min((block_index + 1) * SIGNATURE_STREAM_BLOCK_SIZE, Len(data) - 1)
BlockEnd == Min((block_index + 1) * SIGNATURE_STREAM_BLOCK_SIZE, Len(data))

WriteBlockSignatureFirst ==
    /\ pc = "WriteBlock"
    /\ BlockStart < Len(data)
    /\ LET block_data == Slice(data, BlockStart, BlockEnd)
       IN  IF IsSome(signing_info)
           THEN LET si == Unwrap(signing_info)
                    digest == Digest(si.hash_method,
                                     WriterBlockDigestInput(si, block_data))
                    signature == SignatureBytes(si.private_key, rng)
                IN  /\ out' = out \o signature \o block_data
                    /\ segments' = segments
                           \o <<[kind |-> "block_signature", len |-> Len(signature)],
                                [kind |-> "block", len |-> Len(block_data)]>>
                    /\ decompressed_size' =
                           decompressed_size + Len(block_data) + Len(signature)
                    /\ rng' = rng + 1
                    /\ signed' = signed \cup {<<si.private_key.name, digest, signature>>}
                    /\ wdigests' = Append(wdigests, digest)
           ELSE /\ out' = out \o block_data
                /\ segments' = Append(segments,
                                      [kind |-> "block", len |-> Len(block_data)])
                /\ decompressed_size' = decompressed_size + Len(block_data)
                /\ UNCHANGED <<rng, signed, wdigests>>
    /\ block_index' = block_index + 1
    /\ UNCHANGED <<pc, endian, version, sign_options, data, salt, signing_info, gz>>
    /\ UNCHANGED <<rvars, mvars, cvars>>

\* lines 495-527: one iteration of the block loop
WriteBlock ==
    /\ pc = "WriteBlock"
    /\ BlockStart < Len(data)
    /\ LET block_data == Slice(data, BlockStart, BlockEnd)
       IN  IF IsSome(signing_info)
           THEN LET si == Unwrap(signing_info)
                    digest == Digest(si.hash_method,
                                     WriterBlockDigestInput(si, block_data))
                    signature == SignatureBytes(si.private_key, rng)
                IN  /\ out' = out \o block_data \o signature
                    /\ segments' = segments
                           \o <<[kind |-> "block", len |-> Len(block_data)],
                                [kind |-> "block_signature", len |-> Len(signature)]>>
                    /\ decompressed_size' =
                           decompressed_size + Len(block_data) + Len(signature)
                    /\ rng' = rng + 1
                    /\ signed' = signed \cup {<<si.private_key.name, digest, signature>>}
                    /\ wdigests' = Append(wdigests, digest)
           ELSE /\ out' = out \o block_data
                /\ segments' = Append(segments,
                                      [kind |-> "block", len |-> Len(block_data)])
                /\ decompressed_size' = decompressed_size + Len(block_data)
                /\ UNCHANGED <<rng, signed, wdigests>>
    /\ block_index' = block_index + 1
    /\ UNCHANGED <<pc, endian, version, sign_options, data, salt, signing_info, gz>>
    /\ UNCHANGED <<rvars, mvars, cvars>>

\* lines 497-499 and 529: the loop ends and the writer returns
\* Ok(decompressed_size) to write_gz_signature_stream_data
WriteEnd ==
    /\ pc = "WriteBlock"
    /\ BlockStart >= Len(data)
    /\ pc' = "Finish"
    /\ UNCHANGED <<wvars, rvars, mvars, cvars>>

----------------------------------------------------------------------------
(* write_gz_signature_stream_data (signature_stream.rs:290-331).  The      *)
(* gzip framing, the DEFLATE stream and the CRC are flate2's.  The header  *)
(* is the one GzBuilder makes for these settings; the DEFLATE stream is    *)
(* modelled as one stored block holding the bytes written, a valid         *)
(* encoding of them, and the CRC as a checksum of the same width.          *)

u16_le_bytes(v) == <<v % 256, (v \div 256) % 256>>

\* lines 302-305: GzBuilder::new().extra([0u8; 0xC]).operating_system(0)
\* with Compression::new(6): ID1 ID2 CM, FLG = FEXTRA, MTIME = 0, XFL = 0,
\* OS = 0, XLEN = 12 and the twelve bytes of the extra field
GzHeader ==
    <<31, 139, 8, 4, 0, 0, 0, 0, 0, 0>> \o u16_le_bytes(12) \o [i \in 1..12 |-> 0]

\* the DEFLATE stream of the bytes written through the encoder
Deflate(bytes) ==
    <<1>> \o u16_le_bytes(Len(bytes)) \o u16_le_bytes(65535 - Len(bytes)) \o bytes

RECURSIVE Checksum(_, _, _)
\* a checksum of bytes[lo..hi]
Checksum(bytes, lo, hi) ==
    IF lo > hi THEN 0
    ELSE IF lo = hi THEN lo * bytes[lo]
    ELSE LET mid == (lo + hi) \div 2
         IN  (Checksum(bytes, lo, mid) + Checksum(bytes, mid + 1, hi)) % 16777216

\* the gzip trailer: CRC32 and ISIZE, both little-endian
GzFooter(bytes) ==
    le_bytes(Checksum(bytes, 1, Len(bytes))) \o le_bytes(Len(bytes))

\* line 310: writer.finish() writes what is left of the member
GzFinish ==
    /\ pc = "Finish"
    /\ gz' = GzHeader \o Deflate(out) \o GzFooter(out)
    /\ pc' = "Patch"
    /\ UNCHANGED <<endian, version, sign_options, data, out, decompressed_size,
                   salt, signing_info, block_index, rng, signed, segments,
                   wdigests>>
    /\ UNCHANGED <<rvars, mvars, cvars>>

\* Seek + Write: bytes written over s from the 0-based offset pos on
WriteAt(s, pos, bytes) ==
    [i \in 1..Len(s) |->
        IF i > pos /\ i <= pos + Len(bytes) THEN bytes[i - pos] ELSE s[i]]

ExtraFieldCTStreamEndian(compressed_size, size) ==
    <<67, 84>>
    \o (IF endian = "Big" THEN Reverse(u16_le_bytes(8)) ELSE u16_le_bytes(8))
    \o to_endian_bytes(endian, compressed_size)
    \o to_endian_bytes(endian, size)

\* lines 317-323: #[bw(little, magic = b"CT")] struct ExtraFieldCT
ExtraFieldCT(compressed_size, size) ==
    <<67, 84>>
    \o u16_le_bytes(8)
    \o to_endian_bytes("Little", compressed_size)
    \o to_endian_bytes("Little", size)

\* lines 311-329: the sizes are written over the extra field
GzPatch ==
    /\ pc = "Patch"
    /\ LET writer_end_pos == Len(gz)
           compressed_size == writer_end_pos - GZIP_HEADER_SIZE - GZIP_FOOTER_SIZE
       IN  gz' = WriteAt(gz, 12, ExtraFieldCT(compressed_size, decompressed_size))
    /\ pc' = "End"
    /\ UNCHANGED <<endian, version, sign_options, data, out, decompressed_size,
                   salt, signing_info, block_index, rng, signed, segments,
                   wdigests>>
    /\ UNCHANGED <<rvars, mvars, cvars>>

----------------------------------------------------------------------------
(* Between the writer and the reader: the stream is handed over as         *)
(* written, or with signature bytes or the hash-method id changed.         *)

RECURSIVE SegmentStart(_, _)
\* the offset in `out` at which segment k of segs begins
SegmentStart(segs, k) ==
    IF k = 1 THEN 0 ELSE SegmentStart(segs, k - 1) + segs[k - 1].len

SegmentsOfKind(kind) == {k \in 1..Len(segments) : segments[k].kind = kind}

\* s with the byte at 0-based offset pos changed
FlipByte(s, pos) == [s EXCEPT ![pos + 1] = (s[pos + 1] + 1) % 256]

\* s with the four bytes at 0-based offset pos replaced by the u32 v
PatchU32(s, pos, e, v) ==
    [i \in 1..Len(s) |->
        IF i > pos /\ i <= pos + 4 THEN to_endian_bytes(e, v)[i - pos] ELSE s[i]]

\* offset of hash_method_id in a header: after the magic, version, block_size
HashMethodOffset == Len(SignatureStreamMagic) + 4 + 4

Deliver ==
    /\ pc = "End"
    /\ stream' = out
    /\ tamper' = "none"
    /\ pc' = "Parse"
    /\ UNCHANGED <<r_key_ring, r_memory_stream_name, r_userid, header,
                   verifying_info, position, deinterleaved_data, r_block_index,
                   warnings, rdigests, result>>
    /\ UNCHANGED <<wvars, mvars, cvars>>

TamperHeaderSignature ==
    /\ pc = "End"
    /\ \E k \in SegmentsOfKind("header_signature") :
         \E i \in {0, segments[k].len - 1} :
            stream' = FlipByte(out, SegmentStart(segments, k) + i)
    /\ tamper' = "header_signature"
    /\ pc' = "Parse"
    /\ UNCHANGED <<r_key_ring, r_memory_stream_name, r_userid, header,
                   verifying_info, position, deinterleaved_data, r_block_index,
                   warnings, rdigests, result>>
    /\ UNCHANGED <<wvars, mvars, cvars>>

TamperBlockSignature ==
    /\ pc = "End"
    /\ \E k \in SegmentsOfKind("block_signature") :
          stream' = FlipByte(out, SegmentStart(segments, k))
    /\ tamper' = "block_signature"
    /\ pc' = "Parse"
    /\ UNCHANGED <<r_key_ring, r_memory_stream_name, r_userid, header,
                   verifying_info, position, deinterleaved_data, r_block_index,
                   warnings, rdigests, result>>
    /\ UNCHANGED <<wvars, mvars, cvars>>

\* the hash-method id replaced by another known one (Tiger) or an unknown one
TamperHashMethod ==
    /\ pc = "End"
    /\ IsSome(signing_info)
    /\ \E m \in {HashMethodTiger, HashMethodSha256 + 1} :
          stream' = PatchU32(out, HashMethodOffset, endian, m)
    /\ tamper' = "hash_method"
    /\ pc' = "Parse"
    /\ UNCHANGED <<r_key_ring, r_memory_stream_name, r_userid, header,
                   verifying_info, position, deinterleaved_data, r_block_index,
                   warnings, rdigests, result>>
    /\ UNCHANGED <<wvars, mvars, cvars>>

\* offset of block_size in a header: after the magic and the version
BlockSizeOffset == Len(SignatureStreamMagic) + 4

\* the block sizes a stream not made by the writer may carry: the least the
\* clamp of line 111 lets through, and one that is not the writer's
ForeignBlockSizes == {0, SIGNATURE_STREAM_BLOCK_SIZE + 1}

\* a stream whose header names another block size than the writer's
TamperBlockSize ==
    /\ pc = "End"
    /\ \E b \in ForeignBlockSizes :
          stream' = PatchU32(out, BlockSizeOffset, endian, b)
    /\ tamper' = "block_size"
    /\ pc' = "Parse"
    /\ UNCHANGED <<r_key_ring, r_memory_stream_name, r_userid, header,
                   verifying_info, position, deinterleaved_data, r_block_index,
                   warnings, rdigests, result>>
    /\ UNCHANGED <<wvars, mvars, cvars>>

\* a stream cut short: the last k bytes of the writer's output are missing
TamperTruncate ==
    /\ pc = "End"
    /\ \E k \in 1..MaxTruncate :
          /\ k <= Len(out)
          /\ stream' = SubSeq(out, 1, Len(out) - k)
    /\ tamper' = "truncate"
    /\ pc' = "Parse"
    /\ UNCHANGED <<r_key_ring, r_memory_stream_name, r_userid, header,
                   verifying_info, position, deinterleaved_data, r_block_index,
                   warnings, rdigests, result>>
    /\ UNCHANGED <<wvars, mvars, cvars>>

----------------------------------------------------------------------------
(* parse_signature_stream_data                                             *)

BLOCK_SIZE_MAX == 524288
HASH_SIZE_MAX == 4096
SIGNATURE_SIZE_MAX == 4096

\* lines 109-147: the header fields, read at their offsets in s; ok is
\* FALSE when the magic differs, a read runs past the end, or a Pascal
\* string is not UTF-8
ReadHeader(s, e) ==
    LET n == Len(s)
        m == Len(SignatureStreamMagic)
        v == from_endian_bytes(e, s, m)
        bs == clamp(from_endian_bytes(e, s, m + 4), 0, BLOCK_SIZE_MAX)
        hm == from_endian_bytes(e, s, m + 8)
        hs == clamp(i32_from_endian_bytes(e, s, m + 12), 0, HASH_SIZE_MAX)
        p_salt == m + 16 + hs
        p_name == p_salt + 4
        p_user == p_name + (IF v >= 2 THEN 4 ELSE 0)
        p_str == p_user + (IF v >= 3 THEN 4 ELSE 0)
        str == IF v >= 5 THEN parse_pascal_string(s, p_str, e)
               ELSE Parsed(<<>>, p_str)
        p_size == str.pos
        size == clamp(from_endian_bytes(e, s, p_size), 0, SIGNATURE_SIZE_MAX)
        key == IF v >= 3 /\ size > 0 THEN parse_pascal_string(s, p_size + 4, e)
               ELSE Parsed(<<>>, p_size + 4)
        p_body == key.pos + (IF v >= 3 /\ size > 0 THEN size ELSE 0)
        ok == /\ n >= m
              /\ Slice(s, 0, m) = SignatureStreamMagic
              /\ n >= m + 16
              /\ n >= p_salt + 4
              /\ n >= p_str
              /\ str.ok
              /\ n >= p_size + 4
              /\ key.ok
              /\ n >= p_body
    IN  IF ~ok THEN [ok |-> FALSE]
        ELSE [ok |-> TRUE,
              version |-> v,
              block_size |-> bs,
              hash_method_id |-> hm,
              hash_size |-> hs,
              salt |-> from_endian_bytes(e, s, p_salt),
              has_memory_stream_name |->
                  IF v >= 2 THEN Some(from_endian_bytes(e, s, p_name)) ELSE None,
              has_userid |->
                  IF v >= 3 THEN Some(from_endian_bytes(e, s, p_user)) ELSE None,
              signature_related_string |-> IF v >= 5 THEN Some(str.value) ELSE None,
              signature_size_offset |-> p_size,
              signature_size |-> size,
              signature_info |->
                  IF v >= 3 /\ size > 0
                  THEN Some([sign_key_name |-> key.value,
                             signature |-> Slice(s, key.pos, key.pos + size)])
                  ELSE None,
              body_offset |-> p_body]

\* lines 179-190 (and 191-206): the name (or user id) bytes the closure
\* keeps: Some when the flag is present and non-zero and the caller gave one
FlaggedBytes(flag, given) ==
    IF IsSome(flag) /\ Unwrap(flag) # 0 THEN given ELSE None

\* lines 174-211: what the reader feeds the header hasher
ReaderHeaderDigestInput(h, e, name, userid) ==
    to_endian_bytes(e, h.version)
    \o to_endian_bytes(e, h.block_size)
    \o to_endian_bytes(e, h.hash_method_id)
    \o to_endian_bytes(e, h.hash_size)
    \o to_endian_bytes(e, h.salt)
    \o (IF IsSome(h.has_memory_stream_name)
        THEN to_endian_bytes(e, Unwrap(h.has_memory_stream_name))
             \o (IF IsSome(FlaggedBytes(h.has_memory_stream_name, name))
                 THEN Unwrap(name) ELSE <<>>)
        ELSE <<>>)
    \o (IF IsSome(h.has_userid)
        THEN to_endian_bytes(e, Unwrap(h.has_userid))
             \o (IF IsSome(FlaggedBytes(h.has_userid, userid))
                 THEN Unwrap(userid) ELSE <<>>)
        ELSE <<>>)
    \o (IF IsSome(h.signature_related_string)
        THEN Unwrap(h.signature_related_string) ELSE <<>>)
    \o to_endian_bytes(e, h.signature_size)
    \o Unwrap(h.signature_info).sign_key_name

Warning(kind, index) == [kind |-> kind, block |-> index]

\* the warnings of lines 183 and 196: a flag is set and the caller gave nothing
MissingWarnings(h, name, userid) ==
    (IF IsSome(h.has_memory_stream_name) /\ Unwrap(h.has_memory_stream_name) # 0
        /\ ~IsSome(name)
     THEN <<Warning("no memory stream name", -1)>> ELSE <<>>)
    \o (IF IsSome(h.has_userid) /\ Unwrap(h.has_userid) # 0 /\ ~IsSome(userid)
        THEN <<Warning("no userid", -1)>> ELSE <<>>)

\* lines 157-223: the closure that builds verifying_info;
\* [info, warnings, digests]
VerifyHeader(h, e, key_ring, name, userid) ==
    IF ~IsSome(h.signature_info)
    THEN [info |-> None, warnings |-> <<>>, digests |-> <<>>]
    ELSE
    LET si == Unwrap(h.signature_info)
        keys == KeyRingGet(key_ring, si.sign_key_name)
        hash_method == HashMethodTryFrom(h.hash_method_id)
    IN  IF ~IsSome(keys)
        THEN [info |-> None, warnings |-> <<Warning("no key", -1)>>,
              digests |-> <<>>]
        ELSE IF ~IsSome(hash_method)
        THEN [info |-> None, warnings |-> <<Warning("unknown hash method", -1)>>,
              digests |-> <<>>]
        ELSE
        LET digest == Digest(Unwrap(hash_method),
                             ReaderHeaderDigestInput(h, e, name, userid))
        IN  [info |-> Some([public_key |-> Unwrap(keys),
                            hash_method |-> Unwrap(hash_method),
                            salt |-> h.salt,
                            memory_stream_name_bytes |->
                                FlaggedBytes(h.has_memory_stream_name, name),
                            userid_bytes |-> FlaggedBytes(h.has_userid, userid)]),
             warnings |->
                 MissingWarnings(h, name, userid)
                 \o (IF pss_verify(Unwrap(keys), digest, si.signature) THEN <<>>
                     ELSE <<Warning("invalid signature in header", -1)>>),
             digests |-> <<digest>>]

\* the key rings, names and user ids a caller may pass to the reader
ReaderKeyRings == {DefaultKeyRing, {}}
ReaderNames == {None} \cup {Some(x) : x \in MemoryStreamNames}
ReaderUserIds == {None} \cup {Some(x) : x \in UserIds}

\* lines 108-230: the call, the header and its verification
ParseHeader ==
    /\ pc = "Parse"
    /\ \E kr \in ReaderKeyRings, name \in ReaderNames, userid \in ReaderUserIds :
         /\ r_key_ring' = kr
         /\ r_memory_stream_name' = name
         /\ r_userid' = userid
         /\ LET h == ReadHeader(stream, endian)
            IN  /\ header' = h
                /\ IF h.ok
                   THEN LET v == VerifyHeader(h, endian, kr, name, userid)
                        IN  /\ verifying_info' = v.info
                            /\ warnings' = v.warnings
                            /\ rdigests' = v.digests
                            /\ position' = h.body_offset
                            /\ result' = None
                            /\ pc' = "ParseBlock"
                   ELSE /\ result' = Some([ok |-> FALSE, value |-> <<>>])
                        /\ pc' = "ParseDone"
                        /\ UNCHANGED <<verifying_info, warnings, rdigests, position>>
    /\ r_block_index' = 0
    /\ deinterleaved_data' = <<>>
    /\ UNCHANGED <<stream, tamper>>
    /\ UNCHANGED <<wvars, mvars, cvars>>

\* lines 259-269: what the reader feeds the hasher for block r_block_index
ReaderBlockDigestInput(vi, e, block_data) ==
    to_endian_bytes(e, BlockSalt(vi.salt, r_block_index))
    \o (IF IsSome(vi.memory_stream_name_bytes)
        THEN Unwrap(vi.memory_stream_name_bytes) ELSE <<>>)
    \o (IF IsSome(vi.userid_bytes) THEN Unwrap(vi.userid_bytes) ELSE <<>>)
    \o block_data

\* line 233
remaining == Len(stream) - position

BlockDataLenIgnoresSignature ==
    IF remaining >= header.block_size
    THEN header.block_size
    ELSE remaining - header.signature_size

\* lines 239-254: the length of the block payload of this iteration
BlockDataLen ==
    IF remaining >= header.block_size + header.signature_size
    THEN header.block_size
    ELSE remaining - header.signature_size

\* lines 232-278: one iteration of the reader's block loop.  When
\* remaining < signature_size the u64 subtraction of line 247 overflows:
\* a panic in a build with overflow checks; otherwise the length wraps,
\* take() reads what is left and read_exact fails with UnexpectedEof.
ParseBlock ==
    /\ pc = "ParseBlock"
    /\ remaining # 0
    /\ r_block_index < MaxBlockIndex
    /\ IF BlockDataLen < 0
       THEN /\ \E outcome \in {"panic", "error"} :
                 result' = Some([ok |-> FALSE, value |-> <<>>, kind |-> outcome])
            /\ pc' = "ParseDone"
            /\ UNCHANGED <<position, deinterleaved_data, r_block_index,
                           warnings, rdigests>>
       ELSE IF position + BlockDataLen + header.signature_size > Len(stream)
       THEN \* read_exact(&mut signature_data)? fails with UnexpectedEof
            /\ result' = Some([ok |-> FALSE, value |-> <<>>, kind |-> "error"])
            /\ pc' = "ParseDone"
            /\ UNCHANGED <<position, deinterleaved_data, r_block_index,
                           warnings, rdigests>>
       ELSE LET block_data == Slice(stream, position, position + BlockDataLen)
                signature_data ==
                    Slice(stream, position + BlockDataLen,
                          position + BlockDataLen + header.signature_size)
            IN  /\ deinterleaved_data' = deinterleaved_data \o block_data
                /\ position' = position + BlockDataLen + header.signature_size
                /\ r_block_index' = r_block_index + 1
                /\ IF IsSome(verifying_info)
                   THEN LET vi == Unwrap(verifying_info)
                            digest == Digest(vi.hash_method,
                                             ReaderBlockDigestInput(vi, endian, block_data))
                        IN  /\ rdigests' = Append(rdigests, digest)
                            /\ warnings' =
                                 IF pss_verify(vi.public_key, digest, signature_data)
                                 THEN warnings
                                 ELSE Append(warnings,
                                             Warning("invalid signature for block",
                                                     r_block_index))
                   ELSE UNCHANGED <<warnings, rdigests>>
                /\ UNCHANGED <<pc, result>>
    /\ UNCHANGED <<stream, tamper, r_key_ring, r_memory_stream_name, r_userid,
                   header, verifying_info>>
    /\ UNCHANGED <<wvars, mvars, cvars>>

ParseEndStrict ==
    /\ pc = "ParseBlock"
    /\ remaining = 0
    /\ result' = IF \E i \in 1..Len(warnings) :
                       warnings[i].kind \in {"invalid signature in header",
                                             "invalid signature for block"}
                  THEN Some([ok |-> FALSE, value |-> <<>>, kind |-> "error"])
                  ELSE Some([ok |-> TRUE, value |-> deinterleaved_data])
    /\ pc' = "ParseDone"
    /\ UNCHANGED <<stream, tamper, r_key_ring, r_memory_stream_name, r_userid,
                   header, verifying_info, position, deinterleaved_data,
                   r_block_index, warnings, rdigests>>
    /\ UNCHANGED <<wvars, mvars, cvars>>

\* lines 235-237 and 280: the loop ends and the reader returns
\* Ok(deinterleaved_data)
ParseEnd ==
    /\ pc = "ParseBlock"
    /\ remaining = 0
    /\ result' = Some([ok |-> TRUE, value |-> deinterleaved_data])
    /\ pc' = "ParseDone"
    /\ UNCHANGED <<stream, tamper, r_key_ring, r_memory_stream_name, r_userid,
                   header, verifying_info, position, deinterleaved_data,
                   r_block_index, warnings, rdigests>>
    /\ UNCHANGED <<wvars, mvars, cvars>>

----------------------------------------------------------------------------
(* The signature-stream specification: one call of the writer, then one    *)
(* call of the reader on what it wrote.                                    *)

Endians == {"Little", "Big"}
Versions == 0..MaxVersion
SignKeyNames == {SIGN_KEY_GAME_LOCAL_NAME, SIGN_KEY_OFFICIAL_SIGNATURE, UnknownKeyName}
SignOptionsChoices ==
    {None} \cup
    {Some([key_ring |-> DefaultKeyRing, sign_key_name |-> k,
           memory_stream_name |-> n, userid |-> u]) :
        k \in SignKeyNames,
        n \in {None, Some(<<65, 108, 108>>)},
        u \in ReaderUserIds}
\* payload lengths: empty, short, one block, ..., two blocks and a byte
PayloadLengths == 0..(2 * SIGNATURE_STREAM_BLOCK_SIZE + 1)

MetaIdle ==
    /\ m_pc = "Idle"
    /\ m_runs = 0
    /\ m_endian = "Little"
    /\ m_input = <<>>
    /\ m_pos = 0
    /\ m_section = 1
    /\ m_fields = <<>>
    /\ m_vec = None
    /\ m_result = None
    /\ m_info = None
    /\ m_value = None
    /\ m_json = None
    /\ m_edits = 0
    /\ m_written = None
    /\ m_out = None

CliIdle ==
    /\ c_pc = "Idle"
    /\ c_command = "extract"
    /\ c_player_profile = None
    /\ c_player_profile_extracted = None
    /\ c_memory_stream_name = None
    /\ c_flag = FALSE
    /\ c_name = None

Init ==
    /\ pc = "WriteHeader"
    /\ endian \in Endians
    /\ version \in Versions
    /\ sign_options \in SignOptionsChoices
    /\ data \in {Payload(n) : n \in PayloadLengths}
    /\ out = <<>>
    /\ decompressed_size = 0
    /\ salt = 0
    /\ signing_info = None
    /\ block_index = 0
    /\ rng = 0
    /\ signed = {}
    /\ segments = <<>>
    /\ wdigests = <<>>
    /\ gz = <<>>
    /\ stream = <<>>
    /\ tamper = "none"
    /\ r_key_ring = {}
    /\ r_memory_stream_name = None
    /\ r_userid = None
    /\ header = [ok |-> FALSE]
    /\ verifying_info = None
    /\ position = 0
    /\ deinterleaved_data = <<>>
    /\ r_block_index = 0
    /\ warnings = <<>>
    /\ rdigests = <<>>
    /\ result = None
    /\ MetaIdle
    /\ CliIdle

Next ==
    \/ WriteHeader
    \/ WriteHeaderSig
    \/ WriteBlock
    \/ WriteEnd
    \/ GzFinish
    \/ GzPatch
    \/ Deliver
    \/ TamperHeaderSignature
    \/ TamperBlockSignature
    \/ TamperHashMethod
    \/ TamperBlockSize
    \/ TamperTruncate
    \/ ParseHeader
    \/ ParseBlock
    \/ ParseEnd

Spec == Init /\ [][Next]_vars

----------------------------------------------------------------------------
(* Properties of the signature stream.                                     *)

WriterReturned == pc \in {"End", "Parse", "ParseBlock", "ParseDone"}
ReaderReturned == pc = "ParseDone"
Ok(value) == Some([ok |-> TRUE, value |-> value])

\* the kinds of the writer's segments, in order
Kinds == [i \in 1..Len(segments) |-> segments[i].kind]

RECURSIVE SumLen(_, _)
SumLen(segs, k) == IF k = 0 THEN 0 ELSE SumLen(segs, k - 1) + segs[k].len

\* number of blocks of a payload of n bytes
BlockCount(n) ==
    (n + SIGNATURE_STREAM_BLOCK_SIZE - 1) \div SIGNATURE_STREAM_BLOCK_SIZE

\* the layout of a signed stream of nb blocks, and of an unsigned one
SignedLayout(nb) ==
    <<"header", "signature_size", "sign_key_name", "header_signature">>
    \o [i \in 1..(2 * nb) |-> IF i % 2 = 1 THEN "block" ELSE "block_signature"]
UnsignedLayout(nb) ==
    <<"header", "signature_size">> \o [i \in 1..nb |-> "block"]

\* the signature_size field as it stands in the written bytes
WrittenSignatureSize == from_endian_bytes(endian, out, segments[1].len)

\* the sign options name a key ring entry that has a private key
PrivateKeyHeld ==
    /\ IsSome(sign_options)
    /\ \E k \in Unwrap(sign_options).key_ring :
          k.name = Unwrap(sign_options).sign_key_name /\ k.private

\* the reader is called with the writer's key ring, name and user id
SameArguments ==
    /\ IsSome(sign_options)
    /\ r_key_ring = Unwrap(sign_options).key_ring
    /\ r_memory_stream_name = Unwrap(sign_options).memory_stream_name
    /\ r_userid = Unwrap(sign_options).userid

InvalidSignatureWarnings ==
    {i \in 1..Len(warnings) :
        warnings[i].kind \in {"invalid signature in header",
                              "invalid signature for block"}}

\* C1: container round trip.  Whatever the payload length, version,
\* endianness and sign options, and whatever key ring, name and user id
\* the reader is given, parsing the bytes the writer emitted (same
\* endianness) returns Ok with exactly the payload.
C1_ContainerRoundTrip ==
    (ReaderReturned /\ tamper = "none") => result = Ok(data)

C1_Witness ==
    /\ ReaderReturned
    /\ tamper = "none"
    /\ IsSome(signing_info)
    /\ Len(data) = 2 * SIGNATURE_STREAM_BLOCK_SIZE + 1
    /\ result = Ok(data)

\* C3: signature validity.  When the reader is given the writer's key
\* ring, memory-stream name and user id, it hashes for the header and for
\* every block the digest input the writer signed, and so reports no
\* invalid signature.
C3_SignaturesVerify ==
    (ReaderReturned /\ tamper = "none" /\ IsSome(signing_info) /\ SameArguments)
        => (rdigests = wdigests /\ InvalidSignatureWarnings = {})

\* C4: signature checks never influence the parse result.  With signature
\* bytes or the hash-method id changed, and for every key ring, name and
\* user id given to the reader, the reader returns Ok with the payload
\* the untouched stream yields.
C4_ChecksDoNotInfluenceResult ==
    (ReaderReturned /\ tamper \in {"header_signature", "block_signature", "hash_method"})
        => result = Ok(data)

C4_Witness ==
    /\ ReaderReturned
    /\ tamper = "header_signature"
    /\ \E i \in 1..Len(warnings) : warnings[i].kind = "invalid signature in header"
    /\ Len(data) > SIGNATURE_STREAM_BLOCK_SIZE
    /\ result = Ok(data)

\* the written stream is signed: signature_size > 0, the Pascal key name
\* and the header signature follow, and every block is followed by a
\* signature
WrittenSigned ==
    LET so == Unwrap(sign_options)
        at == segments[1].len
        name == parse_pascal_string(out, at + 4, endian)
    IN  /\ Kinds = SignedLayout(BlockCount(Len(data)))
        /\ WrittenSignatureSize > 0
        /\ name.ok
        /\ name.value = so.sign_key_name
        /\ segments[4].len = WrittenSignatureSize
        /\ \A k \in SegmentsOfKind("block_signature") :
              segments[k].len = WrittenSignatureSize
        /\ Len(out) = SumLen(segments, Len(segments))

\* the written stream is unsigned: signature_size = 0 and the blocks follow
\* at once, with nothing between them
WrittenUnsigned ==
    /\ Kinds = UnsignedLayout(BlockCount(Len(data)))
    /\ WrittenSignatureSize = 0
    /\ Len(out) = segments[1].len + 4 + Len(data)

\* C5 as stated: signed whenever sign options are supplied and the key
\* ring holds a private key under sign_key_name, unsigned otherwise.
C5_SignedIffKeyHeld ==
    WriterReturned => IF PrivateKeyHeld THEN WrittenSigned ELSE WrittenUnsigned

\* C5 amended: signed whenever the version is at least 3, sign options are
\* supplied and the key ring holds a private key under sign_key_name;
\* unsigned in every other case.
C5_SignedIffKeyHeldAndVersion3 ==
    WriterReturned =>
        IF version >= 3 /\ PrivateKeyHeld THEN WrittenSigned ELSE WrittenUnsigned

C5_Witness ==
    /\ WriterReturned
    /\ version >= 3
    /\ PrivateKeyHeld
    /\ WrittenSigned
    /\ Len(data) > SIGNATURE_STREAM_BLOCK_SIZE

\* C6: signing with a key name the ring does not hold, or whose entry has
\* no private key, does not fail the write: the stream is unsigned and the
\* reader returns the payload from it.
C6_MissingKeyDegrades ==
    (IsSome(sign_options) /\ ~PrivateKeyHeld) =>
        /\ WriterReturned => WrittenUnsigned
        /\ (ReaderReturned /\ tamper = "none") => result = Ok(data)

C6_Witness ==
    /\ ReaderReturned
    /\ IsSome(sign_options)
    /\ Unwrap(sign_options).sign_key_name = SIGN_KEY_OFFICIAL_SIGNATURE
    /\ version >= 3
    /\ data # <<>>
    /\ WrittenUnsigned
    /\ result = Ok(data)

\* offset of the first version-gated field: magic and five fixed fields
GatedOffset == Len(SignatureStreamMagic) + 5 * 4

\* C7: version gating.  Between salt and signature_size the written header
\* holds has_memory_stream_name iff version >= 2, has_userid iff
\* version >= 3 and the Pascal signature_related_string iff version >= 5,
\* in that order; the reader decodes the same fields under the same
\* thresholds and consumes exactly the header bytes the writer emitted.
C7_VersionGating ==
    LET g == GatedOffset
        a == IF version >= 2 THEN 4 ELSE 0
        b == IF version >= 3 THEN 4 ELSE 0
        c == IF version >= 5 THEN 4 ELSE 0
    IN  /\ pc # "WriteHeader" =>
              /\ segments[1].len = g + a + b + c
              /\ version >= 2 =>
                    from_endian_bytes(endian, out, g) = has_memory_stream_name
              /\ version >= 3 =>
                    from_endian_bytes(endian, out, g + a) = has_userid
              /\ version >= 5 =>
                    parse_pascal_string(out, g + a + b, endian)
                        = Parsed(<<>>, g + a + b + c)
        /\ (pc \in {"ParseBlock", "ParseDone"} /\ tamper = "none") =>
              /\ header.ok
              /\ header.version = version
              /\ header.salt = salt
              /\ header.has_memory_stream_name =
                    (IF version >= 2 THEN Some(has_memory_stream_name) ELSE None)
              /\ header.has_userid = (IF version >= 3 THEN Some(has_userid) ELSE None)
              /\ header.signature_related_string =
                    (IF version >= 5 THEN Some(<<>>) ELSE None)
              /\ header.signature_size_offset = segments[1].len
              /\ header.signature_size = WrittenSignatureSize
              /\ header.body_offset =
                    SumLen(segments, IF IsSome(signing_info) THEN 4 ELSE 2)

C7_Witness ==
    /\ pc = "ParseDone"
    /\ tamper = "none"
    /\ version = 5
    /\ header.ok
    /\ header.has_memory_stream_name = Some(1)
    /\ header.has_userid = Some(1)
    /\ header.signature_size > 0

\* the lengths of the block payloads the writer emitted, in order
BlockLens ==
    LET ks == SegmentsOfKind("block")
        nth[i \in 1..Cardinality(ks)] ==
            CHOOSE k \in ks : Cardinality({j \in ks : j <= k}) = i
    IN  [i \in 1..Cardinality(ks) |-> segments[nth[i]].len]

\* C8: short final block.  For a payload of L > 0 bytes the last block
\* payload is ((L - 1) mod block_size) + 1 bytes long, every earlier one
\* block_size bytes, and each is followed by exactly signature_size
\* signature bytes (by the next block, or the end, when signature_size is 0).
C8_ShortFinalBlock ==
    (WriterReturned /\ Len(data) > 0) =>
        LET lens == BlockLens
            n == Len(lens)
        IN  /\ n >= 1
            /\ lens[n] = ((Len(data) - 1) % SIGNATURE_STREAM_BLOCK_SIZE) + 1
            /\ \A i \in 1..(n - 1) : lens[i] = SIGNATURE_STREAM_BLOCK_SIZE
            /\ \A k \in SegmentsOfKind("block") :
                  IF WrittenSignatureSize > 0
                  THEN /\ k < Len(segments)
                       /\ segments[k + 1].kind = "block_signature"
                       /\ segments[k + 1].len = WrittenSignatureSize
                  ELSE k = Len(segments) \/ segments[k + 1].kind = "block"
            /\ Len(out) = SumLen(segments, Len(segments))

C8_Witness ==
    /\ WriterReturned
    /\ Len(data) = 2 * SIGNATURE_STREAM_BLOCK_SIZE + 1
    /\ WrittenSignatureSize > 0
    /\ BlockLens = <<SIGNATURE_STREAM_BLOCK_SIZE, SIGNATURE_STREAM_BLOCK_SIZE, 1>>

\* version 1, no memory-stream name, no user id, nothing signed
Version1Unsigned ==
    /\ WriterReturned
    /\ version = 1
    /\ has_memory_stream_name = 0
    /\ has_userid = 0

\* C9 as stated: then the header (all that precedes the body) is exactly
\* 24 bytes and the body is exactly the payload.
C9_Header24Bytes ==
    Version1Unsigned =>
        /\ Len(out) - Len(data) = 24
        /\ Slice(out, Len(out) - Len(data), Len(out)) = data

\* C9 amended: then the header is exactly 36 bytes, the 12-byte magic
\* "SIGSTRM12GIS" followed by the six 4-byte fields version, block_size,
\* hash_method_id, hash_size, salt and signature_size = 0, and the body is
\* exactly the payload with nothing interleaved.
C9_Header36Bytes ==
    Version1Unsigned =>
        /\ Len(out) - Len(data) = 36
        /\ out = <<83, 73, 71, 83, 84, 82, 77, 49, 50, 71, 73, 83>>
                 \o to_endian_bytes(endian, 1)
                 \o to_endian_bytes(endian, SIGNATURE_STREAM_BLOCK_SIZE)
                 \o to_endian_bytes(endian, 4)
                 \o to_endian_bytes(endian, 0)
                 \o to_endian_bytes(endian, salt)
                 \o to_endian_bytes(endian, 0)
                 \o data

C9_Witness ==
    /\ Version1Unsigned
    /\ endian = "Little"
    /\ sign_options = None
    /\ data = Payload(3)
    /\ Len(out) = 39


----------------------------------------------------------------------------
(* The CTSEMETA codec (src/src/ctsemeta.rs): reading.                      *)
(*                                                                         *)
(* A binrw reader is an operator of the stream s and a 0-based offset pos  *)
(* that yields Parsed(value, offset after the value) or Failed(error,      *)
(* offset).  A Rust struct is a record of its fields, an enum variant a    *)
(* record with a `kind` (DataTypeType) or `tag` (InternalObjectDataValue)  *)
(* field naming the variant, a Vec a sequence, () the value Unit.          *)
(* A u64 or i64 is the sequence of its eight bytes, most significant       *)
(* first; an f32 is its bit pattern, held as an i32.                       *)

\* The depth of nested read_type calls at which the thread's stack is
\* exhausted (the source recurses on the machine stack), scaled down.
MaxStackDepth == 4

\* The number of edits made to the JSON tree between extract and create.
MaxEdits == 1

Unit == "()"

CTSEMETA_MAGIC == <<67, 84, 83, 69, 77, 69, 84, 65>>
ENDIANNESS_COOKIE == 305441741
MSGS_MAGIC == <<77, 83, 71, 83>>
INFO_MAGIC == <<73, 78, 70, 79>>
RFIL_MAGIC == <<82, 70, 73, 76>>
IDNT_MAGIC == <<73, 68, 78, 84>>
EXTY_MAGIC == <<69, 88, 84, 89>>
INTY_MAGIC == <<73, 78, 84, 89>>
EXOB_MAGIC == <<69, 88, 79, 66>>
OBTY_MAGIC == <<79, 66, 84, 89>>
EDTY_MAGIC == <<69, 68, 84, 89>>
OBJS_MAGIC == <<79, 66, 74, 83>>
EDOB_MAGIC == <<69, 68, 79, 66>>
METAEND_MAGIC == <<77, 69, 84, 65, 69, 78, 68, 32>>
DTTY_MAGIC == <<68, 84, 84, 89>>
ADIM_MAGIC == <<65, 68, 73, 77>>
STMB_MAGIC == <<83, 84, 77, 66>>
SSAR_MAGIC == <<83, 83, 65, 82>>
DCON_MAGIC == <<68, 67, 79, 78>>

\* the names read_type treats specially
NAME_CString == <<67, 83, 116, 114, 105, 110, 103>>
NAME_IDENT == <<73, 68, 69, 78, 84>>
NAME_UBYTE == <<85, 66, 89, 84, 69>>
NAME_ULONG == <<85, 76, 79, 78, 71>>
NAME_SLONG == <<83, 76, 79, 78, 71>>
NAME_UQUAD == <<85, 81, 85, 65, 68>>
NAME_SQUAD == <<83, 81, 85, 65, 68>>
NAME_FLOAT == <<70, 76, 79, 65, 84>>
NAME_CSyncedSlong == <<67, 83, 121, 110, 99, 101, 100, 83, 108, 111, 110, 103>>
NAME_CSyncedSLONG == <<67, 83, 121, 110, 99, 101, 100, 83, 76, 79, 78, 71>>

\* a byte-string magic
read_magic(s, pos, magic) ==
    IF pos + Len(magic) > Len(s) THEN Failed("Io", pos)
    ELSE IF Slice(s, pos, pos + Len(magic)) = magic
         THEN Parsed(magic, pos + Len(magic))
         ELSE Failed("BadMagic", pos)

\* a u32 magic: binrw reads a u32 under the endianness and compares it with
\* the constant, which is to compare the four bytes with the constant's
\* encoding under that endianness
read_magic_u32(s, pos, e, magic) == read_magic(s, pos, to_endian_bytes(e, magic))

read_u32(s, pos, e) ==
    IF pos + 4 > Len(s) THEN Failed("Io", pos)
    ELSE Parsed(from_endian_bytes(e, s, pos), pos + 4)

read_i32(s, pos, e) ==
    IF pos + 4 > Len(s) THEN Failed("Io", pos)
    ELSE Parsed(i32_from_endian_bytes(e, s, pos), pos + 4)

read_u8(s, pos) ==
    IF pos + 1 > Len(s) THEN Failed("Io", pos) ELSE Parsed(s[pos + 1], pos + 1)

\* u64::read_options and i64::read_options
read_u64(s, pos, e) ==
    IF pos + 8 > Len(s) THEN Failed("Io", pos)
    ELSE Parsed(IF e = "Big" THEN Slice(s, pos, pos + 8)
                ELSE Reverse(Slice(s, pos, pos + 8)), pos + 8)

ReadBytesOneMore(s, pos, count) ==
    IF pos + count + 1 > Len(s) THEN Failed("Io", pos)
    ELSE Parsed(Slice(s, pos, pos + count + 1), pos + count + 1)

\* Vec::<u8>::read_options with args! { count }
read_bytes(s, pos, count) ==
    IF pos + count > Len(s) THEN Failed("Io", pos)
    ELSE Parsed(Slice(s, pos, pos + count), pos + count)

\* F(x): a `let x = ...;` of the source and what follows it
Bind(x, F(_)) == F(x)

\* binrw's map: the value of a read that succeeded is made into another
map_value(x, F(_)) == IF x.ok THEN Parsed(F(x.value), x.pos) ELSE x

\* count values read one after the other, the i-th by Elem(i, offset, the
\* values read before it); the first failure is the failure of the whole.
\* Range(acc, from, to) reads the values from..to after those of acc, the
\* first half and then the second.
read_seq(pos, count, Elem(_, _, _)) ==
    LET RECURSIVE Range(_, _, _)
        Range(acc, from, to) ==
            IF from > to THEN acc
            ELSE IF from = to
            THEN LET r == Elem(from, acc.pos, acc.value)
                 IN  IF r.ok THEN Parsed(Append(acc.value, r.value), r.pos) ELSE r
            ELSE LET left == Range(acc, from, (from + to) \div 2)
                 IN  IF left.ok THEN Range(left, (from + to) \div 2 + 1, to)
                     ELSE left
    IN  Range(Parsed(<<>>, pos), 1, count)

\* helpers.rs parse_pascal_vec: a u32 count, then count elements
parse_pascal_vec(s, pos, e, Elem(_)) ==
    Bind(read_u32(s, pos, e), LAMBDA count :
        IF ~count.ok THEN count
        ELSE read_seq(count.pos, count.value, LAMBDA i, p, before : Elem(p)))

\* binrw's assert on a field that was read
assert_that(x, Condition(_)) ==
    Bind(x, LAMBDA r :
        IF r.ok /\ ~Condition(r.value) THEN Failed("AssertFail", r.pos) ELSE r)

MetadataReadAnyCookie(s, pos, e) ==
    map_value(
        read_seq(pos, 4, LAMBDA i, p, before :
            CASE i = 1 -> read_magic(s, p, CTSEMETA_MAGIC)
              [] i = 2 -> read_bytes(s, p, 4)
              [] i = 3 -> read_u32(s, p, e)
              [] i = 4 -> IF before[3] >= 2
                          THEN map_value(parse_pascal_string(s, p, e),
                                         LAMBDA x : Some(x))
                          ELSE Parsed(None, p)),
        LAMBDA v : [version |-> v[3], version_string |-> v[4]])

\* Metadata: "CTSEMETA", the cookie, version, version_string if version >= 2
Metadata_read(s, pos, e) ==
    map_value(
        read_seq(pos, 4, LAMBDA i, p, before :
            CASE i = 1 -> read_magic(s, p, CTSEMETA_MAGIC)
              [] i = 2 -> read_magic_u32(s, p, e, ENDIANNESS_COOKIE)
              [] i = 3 -> read_u32(s, p, e)
              [] i = 4 -> IF before[3] >= 2
                          THEN map_value(parse_pascal_string(s, p, e),
                                         LAMBDA x : Some(x))
                          ELSE Parsed(None, p)),
        LAMBDA v : [version |-> v[3], version_string |-> v[4]])

ReadReservedAnyCount(s, pos, e, magic) ==
    Bind(read_magic(s, pos, magic), LAMBDA m :
        IF ~m.ok THEN m
        ELSE parse_pascal_vec(s, m.pos, e, LAMBDA p : Parsed(Unit, p)))

\* a section that is a magic and a Pascal vector of () asserted to be empty:
\* Messages, ResourceFiles, ExternalObjects, EditObjectTypes, EditObjects
read_reserved(s, pos, e, magic) ==
    Bind(read_magic(s, pos, magic), LAMBDA m :
        IF ~m.ok THEN m
        ELSE assert_that(parse_pascal_vec(s, m.pos, e, LAMBDA p : Parsed(Unit, p)),
                         LAMBDA vec : vec = <<>>))

Messages_read(s, pos, e) == read_reserved(s, pos, e, MSGS_MAGIC)
ResourceFiles_read(s, pos, e) == read_reserved(s, pos, e, RFIL_MAGIC)
ExternalObjects_read(s, pos, e) == read_reserved(s, pos, e, EXOB_MAGIC)
EditObjectTypes_read(s, pos, e) == read_reserved(s, pos, e, EDTY_MAGIC)
EditObjects_read(s, pos, e) == read_reserved(s, pos, e, EDOB_MAGIC)

\* Info: "INFO" and five u32
Info_read(s, pos, e) ==
    map_value(
        read_seq(pos, 6, LAMBDA i, p, before :
            IF i = 1 THEN read_magic(s, p, INFO_MAGIC) ELSE read_u32(s, p, e)),
        LAMBDA v : [EditDataStripped |-> v[2], ResourceFiles |-> v[3],
                    Idents |-> v[4], Types |-> v[5], Objects |-> v[6]])

\* a u32 and a Pascal string: Ident and ExternalType
read_u32_and_name(s, pos, e) ==
    read_seq(pos, 2, LAMBDA i, p, before :
        IF i = 1 THEN read_u32(s, p, e) ELSE parse_pascal_string(s, p, e))

Ident_read(s, pos, e) ==
    map_value(read_u32_and_name(s, pos, e),
              LAMBDA v : [Ident |-> v[1], Name |-> v[2]])

ExternalType_read(s, pos, e) ==
    map_value(read_u32_and_name(s, pos, e),
              LAMBDA v : [Type |-> v[1], Name |-> v[2]])

\* a magic and a Pascal vector
read_section(s, pos, e, magic, Elem(_)) ==
    Bind(read_magic(s, pos, magic), LAMBDA m :
        IF ~m.ok THEN m ELSE parse_pascal_vec(s, m.pos, e, Elem))

Idents_read(s, pos, e) ==
    read_section(s, pos, e, IDNT_MAGIC, LAMBDA p : Ident_read(s, p, e))

ExternalTypes_read(s, pos, e) ==
    read_section(s, pos, e, EXTY_MAGIC, LAMBDA p : ExternalType_read(s, p, e))

\* two u32: DataTypeTypeStructMember and InternalObjectType
read_two_u32(s, pos, e) == read_seq(pos, 2, LAMBDA i, p, before : read_u32(s, p, e))

DataTypeTypeStructMember_read(s, pos, e) ==
    map_value(read_two_u32(s, pos, e), LAMBDA v : [ID |-> v[1], Type |-> v[2]])

InternalObjectType_read(s, pos, e) ==
    map_value(read_two_u32(s, pos, e), LAMBDA v : [Object |-> v[1], Type |-> v[2]])

InternalObjectTypes_read(s, pos, e) ==
    read_section(s, pos, e, OBTY_MAGIC, LAMBDA p : InternalObjectType_read(s, p, e))

\* the variants' u32 magics
MAGIC_Primitive == 0
MAGIC_Enum == 1
MAGIC_Pointer == 2
MAGIC_Array == 4
MAGIC_Struct == 5
MAGIC_StaticStackArray == 7
MAGIC_DynamicContainer == 8
MAGIC_TypeDef == 13

\* DataTypeType: binrw tries the variants in order, each from pos; a variant
\* whose magic or fields fail is given up, and when every variant has
\* failed the read fails.  The magics differ, so at most one variant gets
\* past its magic.
DataTypeType_read(s, pos, e) ==
    LET Is(magic) == read_magic_u32(s, pos, e, magic).ok
        p == pos + 4
        OneField(Variant(_)) == map_value(read_u32(s, p, e), Variant)
    IN  Bind(
          CASE Is(MAGIC_Primitive) ->
                 map_value(read_two_u32(s, p, e),
                           LAMBDA v : [kind |-> "Primitive", Bytes |-> v[1],
                                       LBE |-> v[2]])
            [] Is(MAGIC_Enum) ->
                 OneField(LAMBDA v : [kind |-> "Enum", Bytes |-> v])
            [] Is(MAGIC_Pointer) ->
                 OneField(LAMBDA v : [kind |-> "Pointer", To |-> v])
            [] Is(MAGIC_Array) ->
                 map_value(
                     read_seq(p, 4, LAMBDA i, q, before :
                         CASE i = 1 -> read_u32(s, q, e)
                           [] i = 2 -> read_magic(s, q, ADIM_MAGIC)
                           [] i = 3 -> assert_that(read_u32(s, q, e),
                                                   LAMBDA rows : rows = 1)
                           [] i = 4 -> read_u32(s, q, e)),
                     LAMBDA v : [kind |-> "Array", Of |-> v[1], rows |-> v[3],
                                 cols |-> v[4]])
            [] Is(MAGIC_Struct) ->
                 map_value(
                     read_seq(p, 3, LAMBDA i, q, before :
                         CASE i = 1 -> read_i32(s, q, e)
                           [] i = 2 -> read_magic(s, q, STMB_MAGIC)
                           [] i = 3 -> parse_pascal_vec(s, q, e,
                                           LAMBDA m :
                                               DataTypeTypeStructMember_read(s, m, e))),
                     LAMBDA v : [kind |-> "Struct", Base |-> v[1], members |-> v[3]])
            [] Is(MAGIC_StaticStackArray) ->
                 OneField(LAMBDA v : [kind |-> "StaticStackArray", Of |-> v])
            [] Is(MAGIC_DynamicContainer) ->
                 OneField(LAMBDA v : [kind |-> "DynamicContainer", Of |-> v])
            [] Is(MAGIC_TypeDef) ->
                 OneField(LAMBDA v : [kind |-> "TypeDef", For |-> v])
            [] OTHER -> Failed("NoVariantMatch", pos),
          LAMBDA variant : IF variant.ok THEN variant ELSE Failed("EnumErrors", pos))

\* DataType: "DTTY", DataType, Name, Format, Type
DataType_read(s, pos, e) ==
    map_value(
        read_seq(pos, 5, LAMBDA i, p, before :
            CASE i = 1 -> read_magic(s, p, DTTY_MAGIC)
              [] i = 2 -> read_u32(s, p, e)
              [] i = 3 -> parse_pascal_string(s, p, e)
              [] i = 4 -> read_u32(s, p, e)
              [] i = 5 -> DataTypeType_read(s, p, e)),
        LAMBDA v : [DataType |-> v[2], Name |-> v[3], Format |-> v[4],
                    Type |-> v[5]])

InternalTypes_read(s, pos, e) ==
    read_section(s, pos, e, INTY_MAGIC, LAMBDA p : DataType_read(s, p, e))

TypeMapWithDefault(types) ==
    [id \in {types[i].DataType : i \in 1..Len(types)} \cup {77, 100} |->
        IF \E i \in 1..Len(types) : types[i].DataType = id
        THEN LET last == CHOOSE i \in 1..Len(types) :
                             /\ types[i].DataType = id
                             /\ \A j \in (i + 1)..Len(types) : types[j].DataType # id
             IN  types[last]
        ELSE [DataType |-> id, Name |-> <<>>, Format |-> 0,
              Type |-> [kind |-> "Pointer", To |-> 0]]]

\* lines 381-386: the HashMap from DataType to its definition; collect()
\* inserts in order, so of two definitions with one id the later stays
TypeMap(types) ==
    [id \in {types[i].DataType : i \in 1..Len(types)} |->
        LET last == CHOOSE i \in 1..Len(types) :
                        /\ types[i].DataType = id
                        /\ \A j \in (i + 1)..Len(types) : types[j].DataType # id
        IN  types[last]]

\* lines 252-377: read_type.  depth is the number of read_type frames on the
\* stack; the call that would exceed MaxStackDepth overflows the stack and
\* the process is killed, which is the failure "StackOverflow".
RECURSIVE read_type(_, _, _, _, _, _)
read_type(s, pos, e, data_type, internal_types, depth) ==
    IF depth > MaxStackDepth THEN Failed("StackOverflow", pos)
    ELSE IF data_type \notin DOMAIN internal_types
    THEN Failed("Tried to read external type", pos)
    ELSE
    LET dt == internal_types[data_type]
        ty == dt.Type
        Tagged(tag, x) == map_value(x, LAMBDA v : [tag |-> tag, v |-> v])
        Nested(of, p) == read_type(s, p, e, of, internal_types, depth + 1)
    IN  CASE ty.kind = "Primitive" ->
               CASE dt.Name = NAME_CString -> Tagged("CString", parse_pascal_string(s, pos, e))
                 [] dt.Name = NAME_IDENT -> Tagged("IDENT", read_u32(s, pos, e))
                 [] dt.Name = NAME_UBYTE -> Tagged("UBYTE", read_u8(s, pos))
                 [] dt.Name = NAME_ULONG -> Tagged("ULONG", read_u32(s, pos, e))
                 [] dt.Name = NAME_SLONG -> Tagged("SLONG", read_i32(s, pos, e))
                 [] dt.Name = NAME_UQUAD -> Tagged("UQUAD", read_u64(s, pos, e))
                 [] dt.Name = NAME_SQUAD -> Tagged("SQUAD", read_u64(s, pos, e))
                 [] dt.Name = NAME_FLOAT -> Tagged("FLOAT", read_i32(s, pos, e))
                 [] OTHER -> Tagged("Primitive", read_bytes(s, pos, ty.Bytes))
          [] ty.kind = "Enum" ->
               IF ty.Bytes = 4 THEN Tagged("SLONGEnum", read_i32(s, pos, e))
               ELSE Tagged("Enum", read_bytes(s, pos, ty.Bytes))
          [] ty.kind = "Pointer" -> Tagged("Pointer", read_i32(s, pos, e))
          [] ty.kind = "Array" ->
               Tagged("Array", read_seq(pos, ty.cols,
                                        LAMBDA i, p, before : Nested(ty.Of, p)))
          [] ty.kind = "Struct" ->
               IF dt.Name = NAME_CSyncedSLONG /\ ty.members = <<>>
               THEN Tagged("CSyncedSLONG", read_i32(s, pos, e))
               ELSE map_value(
                        read_seq(pos, 2, LAMBDA i, p, before :
                            CASE i = 1 ->
                                   IF ty.Base # -1
                                   THEN map_value(Nested(ty.Base, p),
                                                  LAMBDA b : Some(b))
                                   ELSE Parsed(None, p)
                              [] i = 2 ->
                                   read_seq(p, Len(ty.members),
                                            LAMBDA k, q, b :
                                                Nested(ty.members[k].Type, q))),
                        LAMBDA v : [tag |-> "Struct", Base |-> v[1],
                                    members |-> v[2]])
          [] ty.kind = "StaticStackArray" ->
               map_value(
                   read_seq(pos, 3, LAMBDA i, p, before :
                       CASE i = 1 -> read_magic(s, p, SSAR_MAGIC)
                         [] i = 2 -> read_u32(s, p, e)
                         [] i = 3 -> read_seq(p, before[2],
                                              LAMBDA k, q, b : Nested(ty.Of, q))),
                   LAMBDA v : [tag |-> "StaticStackArray", v |-> v[3]])
          [] ty.kind = "DynamicContainer" ->
               map_value(
                   read_seq(pos, 3, LAMBDA i, p, before :
                       CASE i = 1 -> read_magic(s, p, DCON_MAGIC)
                         [] i = 2 -> read_u32(s, p, e)
                         [] i = 3 -> read_seq(p, before[2],
                                              LAMBDA k, q, b : read_u32(s, q, e))),
                   LAMBDA v : [tag |-> "DynamicContainer", v |-> v[3]])
          [] ty.kind = "TypeDef" -> Nested(ty.For, pos)

\* lines 242-397: InternalObject::read_options
InternalObject_read(s, pos, e, internal_types) ==
    Bind(TypeMap(internal_types), LAMBDA types :
        map_value(
            read_seq(pos, 3, LAMBDA i, p, before :
                CASE i = 1 -> read_u32(s, p, e)
                  [] i = 2 -> read_u32(s, p, e)
                  [] i = 3 -> read_type(s, p, e, before[2], types, 1)),
            LAMBDA v : [Object |-> v[1], Type |-> v[2], value |-> v[3]]))

InternalObjects_read(s, pos, e, internal_types) ==
    read_section(s, pos, e, OBJS_MAGIC,
                 LAMBDA p : InternalObject_read(s, p, e, internal_types))

Metaend_read(s, pos) == read_magic(s, pos, METAEND_MAGIC)

\* lines 506-527: the fields of CTSEMeta in the order read_options reads
\* them; the fields that are a magic and a Pascal vector of elements that
\* take bytes are read an element at a time
LAST_SECTION == 13
VecSections == {5, 6, 7, 9, 11}

VecMagic(section) ==
    CASE section = 5 -> IDNT_MAGIC
      [] section = 6 -> EXTY_MAGIC
      [] section = 7 -> INTY_MAGIC
      [] section = 9 -> OBTY_MAGIC
      [] section = 11 -> OBJS_MAGIC

\* the magic of a section and the count of its Pascal vector
read_vec_head(s, pos, e, magic) ==
    Bind(read_magic(s, pos, magic), LAMBDA m :
        IF ~m.ok THEN m ELSE read_u32(s, m.pos, e))

\* one element of the vector of a section; internal_types is the field
\* read before, which InternalObjects imports
read_element(s, pos, e, section, fields) ==
    CASE section = 5 -> Ident_read(s, pos, e)
      [] section = 6 -> ExternalType_read(s, pos, e)
      [] section = 7 -> DataType_read(s, pos, e)
      [] section = 9 -> InternalObjectType_read(s, pos, e)
      [] section = 11 -> InternalObject_read(s, pos, e, fields[7])

\* a field that is not read an element at a time
read_field(s, pos, e, section) ==
    CASE section = 1 -> Metadata_read(s, pos, e)
      [] section = 2 -> Messages_read(s, pos, e)
      [] section = 3 -> Info_read(s, pos, e)
      [] section = 4 -> ResourceFiles_read(s, pos, e)
      [] section = 8 -> ExternalObjects_read(s, pos, e)
      [] section = 10 -> EditObjectTypes_read(s, pos, e)
      [] section = 12 -> EditObjects_read(s, pos, e)
      [] section = 13 -> Metaend_read(s, pos)

\* the value read_options returns: _info (3) and _metaend (13) are
\* temporaries
CTSEMetaOf(fields) ==
    [metadata |-> fields[1],
     messages |-> fields[2],
     resource_files |-> fields[4],
     idents |-> fields[5],
     external_types |-> fields[6],
     internal_types |-> fields[7],
     external_objects |-> fields[8],
     internal_object_types |-> fields[9],
     edit_object_types |-> fields[10],
     internal_objects |-> fields[11],
     edit_objects |-> fields[12]]
----------------------------------------------------------------------------
(* The CTSEMETA codec: writing.  A binrw writer is an operator that yields *)
(* the bytes it writes.                                                    *)

\* seqs[from] \o ... \o seqs[to]
RECURSIVE ConcatRange(_, _, _)
ConcatRange(seqs, from, to) ==
    IF from > to THEN <<>>
    ELSE IF from = to THEN seqs[from]
    ELSE LET mid == (from + to) \div 2
         IN  ConcatRange(seqs, from, mid) \o ConcatRange(seqs, mid + 1, to)

Concat(seqs) == ConcatRange(seqs, 1, Len(seqs))

\* Vec<T>::write_options: the elements one after the other
write_vec(value, Elem(_)) == Concat([i \in 1..Len(value) |-> Elem(value[i])])

\* helpers.rs write_pascal_vec: the u32 length, then the elements
write_pascal_vec(value, e, Elem(_)) ==
    to_endian_bytes(e, Len(value)) \o write_vec(value, Elem)

\* lines 19-23: None is written as the empty string
write_option_pascal_string(value, e) ==
    write_pascal_string(IF IsSome(value) THEN Unwrap(value) ELSE <<>>, e)

MetadataWriteAlwaysString(m, e) ==
    CTSEMETA_MAGIC \o to_endian_bytes(e, ENDIANNESS_COOKIE)
        \o to_endian_bytes(e, m.version)
        \o write_option_pascal_string(m.version_string, e)

Metadata_write(m, e) ==
    CTSEMETA_MAGIC \o to_endian_bytes(e, ENDIANNESS_COOKIE)
        \o to_endian_bytes(e, m.version)
        \o (IF m.version >= 2 THEN write_option_pascal_string(m.version_string, e)
            ELSE <<>>)

\* a magic and a Pascal vector of ()
write_reserved(value, e, magic) ==
    magic \o write_pascal_vec(value, e, LAMBDA unit : <<>>)

Messages_write(value, e) == write_reserved(value, e, MSGS_MAGIC)
ResourceFiles_write(value, e) == write_reserved(value, e, RFIL_MAGIC)
ExternalObjects_write(value, e) == write_reserved(value, e, EXOB_MAGIC)
EditObjectTypes_write(value, e) == write_reserved(value, e, EDTY_MAGIC)
EditObjects_write(value, e) == write_reserved(value, e, EDOB_MAGIC)

InfoNewTypesInternalOnly(resource_file, idents, external_types, internal_types, external_objects, internal_objects) ==
    [EditDataStripped |-> 1,
     ResourceFiles |-> Len(resource_file),
     Idents |-> Len(idents),
     Types |-> Len(internal_types),
     Objects |-> Len(external_objects) + Len(internal_objects)]

\* lines 54-72: Info::new
Info_new(resource_file, idents, external_types, internal_types, external_objects, internal_objects) ==
    [EditDataStripped |-> 1,
     ResourceFiles |-> Len(resource_file),
     Idents |-> Len(idents),
     Types |-> Len(external_types) + Len(internal_types),
     Objects |-> Len(external_objects) + Len(internal_objects)]

Info_write(info, e) ==
    INFO_MAGIC \o to_endian_bytes(e, info.EditDataStripped)
        \o to_endian_bytes(e, info.ResourceFiles)
        \o to_endian_bytes(e, info.Idents)
        \o to_endian_bytes(e, info.Types)
        \o to_endian_bytes(e, info.Objects)

Ident_write(ident, e) ==
    to_endian_bytes(e, ident.Ident) \o write_pascal_string(ident.Name, e)

Idents_write(value, e) ==
    IDNT_MAGIC \o write_pascal_vec(value, e, LAMBDA ident : Ident_write(ident, e))

ExternalType_write(type, e) ==
    to_endian_bytes(e, type.Type) \o write_pascal_string(type.Name, e)

ExternalTypes_write(value, e) ==
    EXTY_MAGIC \o write_pascal_vec(value, e, LAMBDA type : ExternalType_write(type, e))

DataTypeTypeStructMember_write(member, e) ==
    to_endian_bytes(e, member.ID) \o to_endian_bytes(e, member.Type)

DataTypeType_write(ty, e) ==
    CASE ty.kind = "Primitive" ->
           to_endian_bytes(e, MAGIC_Primitive) \o to_endian_bytes(e, ty.Bytes)
               \o to_endian_bytes(e, ty.LBE)
      [] ty.kind = "Enum" ->
           to_endian_bytes(e, MAGIC_Enum) \o to_endian_bytes(e, ty.Bytes)
      [] ty.kind = "Pointer" ->
           to_endian_bytes(e, MAGIC_Pointer) \o to_endian_bytes(e, ty.To)
      [] ty.kind = "Array" ->
           to_endian_bytes(e, MAGIC_Array) \o to_endian_bytes(e, ty.Of)
               \o ADIM_MAGIC \o to_endian_bytes(e, ty.rows)
               \o to_endian_bytes(e, ty.cols)
      [] ty.kind = "Struct" ->
           to_endian_bytes(e, MAGIC_Struct) \o to_endian_bytes(e, ty.Base)
               \o STMB_MAGIC
               \o write_pascal_vec(ty.members, e,
                      LAMBDA member : DataTypeTypeStructMember_write(member, e))
      [] ty.kind = "StaticStackArray" ->
           to_endian_bytes(e, MAGIC_StaticStackArray) \o to_endian_bytes(e, ty.Of)
      [] ty.kind = "DynamicContainer" ->
           to_endian_bytes(e, MAGIC_DynamicContainer) \o to_endian_bytes(e, ty.Of)
      [] ty.kind = "TypeDef" ->
           to_endian_bytes(e, MAGIC_TypeDef) \o to_endian_bytes(e, ty.For)

DataType_write(dt, e) ==
    DTTY_MAGIC \o to_endian_bytes(e, dt.DataType) \o write_pascal_string(dt.Name, e)
        \o to_endian_bytes(e, dt.Format) \o DataTypeType_write(dt.Type, e)

InternalTypes_write(value, e) ==
    INTY_MAGIC \o write_pascal_vec(value, e, LAMBDA dt : DataType_write(dt, e))

InternalObjectType_write(t, e) ==
    to_endian_bytes(e, t.Object) \o to_endian_bytes(e, t.Type)

InternalObjectTypes_write(value, e) ==
    OBTY_MAGIC \o write_pascal_vec(value, e, LAMBDA t : InternalObjectType_write(t, e))

WriteU64BigEndian(v, e) == v

\* u64::write_options and i64::write_options
write_u64(v, e) == IF e = "Big" THEN v ELSE Reverse(v)

\* lines 411-477: write_value
RECURSIVE WriteValueCounted(_, _)
RECURSIVE write_value(_, _)
WriteValueCounted(value, e) ==
    CASE value.tag \in {"Pointer", "IDENT", "ULONG", "SLONG", "FLOAT", "SLONGEnum",
                        "CSyncedSLONG"} ->
           to_endian_bytes(e, value.v)
      [] value.tag = "CString" -> write_pascal_string(value.v, e)
      [] value.tag = "UBYTE" -> <<value.v>>
      [] value.tag \in {"UQUAD", "SQUAD"} -> write_u64(value.v, e)
      [] value.tag \in {"Primitive", "Enum"} -> value.v
      [] value.tag = "Array" ->
           to_endian_bytes(e, Len(value.v))
               \o write_vec(value.v, LAMBDA element : WriteValueCounted(element, e))
      [] value.tag = "Struct" ->
           (IF IsSome(value.Base) THEN WriteValueCounted(Unwrap(value.Base), e)
            ELSE <<>>)
               \o write_vec(value.members, LAMBDA member : WriteValueCounted(member, e))
      [] value.tag = "StaticStackArray" ->
           SSAR_MAGIC \o to_endian_bytes(e, Len(value.v))
               \o write_vec(value.v, LAMBDA element : WriteValueCounted(element, e))
      [] value.tag = "DynamicContainer" ->
           DCON_MAGIC \o to_endian_bytes(e, Len(value.v))
               \o write_vec(value.v, LAMBDA pointer : to_endian_bytes(e, pointer))
write_value(value, e) ==
    CASE value.tag \in {"Pointer", "IDENT", "ULONG", "SLONG", "FLOAT", "SLONGEnum",
                        "CSyncedSLONG"} ->
           to_endian_bytes(e, value.v)
      [] value.tag = "CString" -> write_pascal_string(value.v, e)
      [] value.tag = "UBYTE" -> <<value.v>>
      [] value.tag \in {"UQUAD", "SQUAD"} -> write_u64(value.v, e)
      [] value.tag \in {"Primitive", "Enum"} -> value.v
      [] value.tag = "Array" ->
           write_vec(value.v, LAMBDA element : write_value(element, e))
      [] value.tag = "Struct" ->
           (IF IsSome(value.Base) THEN write_value(Unwrap(value.Base), e) ELSE <<>>)
               \o write_vec(value.members, LAMBDA member : write_value(member, e))
      [] value.tag = "StaticStackArray" ->
           SSAR_MAGIC \o to_endian_bytes(e, Len(value.v))
               \o write_vec(value.v, LAMBDA element : write_value(element, e))
      [] value.tag = "DynamicContainer" ->
           DCON_MAGIC \o to_endian_bytes(e, Len(value.v))
               \o write_vec(value.v, LAMBDA pointer : to_endian_bytes(e, pointer))

\* lines 399-483: InternalObject::write_options
InternalObject_write(object, e) ==
    to_endian_bytes(e, object.Object) \o to_endian_bytes(e, object.Type)
        \o write_value(object.value, e)

InternalObjects_write(value, e) ==
    OBJS_MAGIC \o write_pascal_vec(value, e,
                      LAMBDA object : InternalObject_write(object, e))

CTSEMetaWriteObjectTypesLast(m, e) ==
    Metadata_write(m.metadata, e)
        \o Messages_write(m.messages, e)
        \o Info_write(Info_new(m.resource_files, m.idents, m.external_types,
                               m.internal_types, m.external_objects,
                               m.internal_objects), e)
        \o ResourceFiles_write(m.resource_files, e)
        \o Idents_write(m.idents, e)
        \o ExternalTypes_write(m.external_types, e)
        \o InternalTypes_write(m.internal_types, e)
        \o ExternalObjects_write(m.external_objects, e)
        \o EditObjectTypes_write(m.edit_object_types, e)
        \o InternalObjects_write(m.internal_objects, e)
        \o InternalObjectTypes_write(m.internal_object_types, e)
        \o EditObjects_write(m.edit_objects, e)
        \o METAEND_MAGIC

\* CTSEMeta::write_options: _info is calculated from the fields, _metaend
\* is the magic
CTSEMeta_write(m, e) ==
    Metadata_write(m.metadata, e)
        \o Messages_write(m.messages, e)
        \o Info_write(Info_new(m.resource_files, m.idents, m.external_types,
                               m.internal_types, m.external_objects,
                               m.internal_objects), e)
        \o ResourceFiles_write(m.resource_files, e)
        \o Idents_write(m.idents, e)
        \o ExternalTypes_write(m.external_types, e)
        \o InternalTypes_write(m.internal_types, e)
        \o ExternalObjects_write(m.external_objects, e)
        \o InternalObjectTypes_write(m.internal_object_types, e)
        \o EditObjectTypes_write(m.edit_object_types, e)
        \o InternalObjects_write(m.internal_objects, e)
        \o EditObjects_write(m.edit_objects, e)
        \o METAEND_MAGIC

----------------------------------------------------------------------------
(* The CTSEMETA specification: one call of CTSEMeta::read_options on a     *)
(* file, then, when it returned a value, the edits of the JSON tree and    *)
(* one call of CTSEMeta::write_options.                                    *)
(*                                                                         *)
(* A file is described by the list of the items it holds, and its bytes    *)
(* are the items' bytes under the file's endianness.                       *)

N32(n) == [k |-> "n32", v |-> n]
N64(bytes) == [k |-> "n64", v |-> bytes]
Raw(bytes) == [k |-> "raw", v |-> bytes]
Str(bytes) == [k |-> "str", v |-> bytes]

ItemBytes(item, e) ==
    CASE item.k = "n32" -> to_endian_bytes(e, item.v)
      [] item.k = "n64" -> IF e = "Big" THEN item.v ELSE Reverse(item.v)
      [] item.k = "raw" -> item.v
      [] item.k = "str" -> to_endian_bytes(e, Len(item.v)) \o item.v

FileBytes(items, e) == Concat([i \in 1..Len(items) |-> ItemBytes(items[i], e)])

\* a primitive type definition: DTTY, id, name, format, Primitive, Bytes, LBE
PrimitiveItems(id, name, bytes) ==
    <<Raw(DTTY_MAGIC), N32(id), Str(name), N32(0),
      N32(MAGIC_Primitive), N32(bytes), N32(0)>>

PrimitiveNames ==
    <<NAME_CString, NAME_IDENT, NAME_UBYTE, NAME_ULONG, NAME_SLONG, NAME_UQUAD,
      NAME_SQUAD, NAME_FLOAT, <<66, 108, 111, 98>>>>
PrimitiveBytes == <<0, 4, 1, 4, 4, 8, 8, 4, 3>>

ScenarioNames ==
    {"empty", "primitives", "composites", "duplicate", "external", "cycle", "rows"}

\* the bodies of IDNT, EXTY, INTY, OBTY and OBJS, and the lengths of the
\* vectors of IDNT, EXTY, INTY and OBJS
Scenario(name) ==
    CASE name = "empty" ->
           [idents |-> <<N32(0)>>, external_types |-> <<N32(0)>>,
            internal_types |-> <<N32(0)>>, internal_object_types |-> <<N32(0)>>,
            internal_objects |-> <<N32(0)>>, counts |-> <<0, 0, 0, 0>>]
      [] name = "primitives" ->
           \* types 1..9 are the primitives, type 10 a struct of one of each
           [idents |-> <<N32(1), N32(3), Str(<<105, 100>>)>>,
            external_types |-> <<N32(1), N32(100), Str(<<69, 120, 116>>)>>,
            internal_types |->
                <<N32(10)>>
                \o Concat([k \in 1..9 |->
                              PrimitiveItems(k, PrimitiveNames[k], PrimitiveBytes[k])])
                \o <<Raw(DTTY_MAGIC), N32(10), Str(<<65, 108, 108>>), N32(0),
                     N32(MAGIC_Struct), N32(-1), Raw(STMB_MAGIC), N32(9)>>
                \o Concat([k \in 1..9 |-> <<N32(k), N32(k)>>]),
            internal_object_types |-> <<N32(1), N32(0), N32(10)>>,
            internal_objects |->
                <<N32(1), N32(0), N32(10),
                  Str(<<104, 195, 169>>), N32(3), Raw(<<200>>), N32(70000), N32(-7),
                  N64(<<1, 2, 3, 4, 5, 6, 7, 8>>),
                  N64(<<255, 255, 255, 255, 255, 255, 255, 249>>),
                  N32(1065353216), Raw(<<1, 2, 3>>)>>,
            counts |-> <<1, 1, 10, 1>>]
      [] name = "composites" ->
           \* 1 SLONG, 2 Enum of 4 bytes, 3 Enum of 2 bytes, 4 Pointer,
           \* 5 Array of two SLONG, 6 CSyncedSLONG, 7 StaticStackArray,
           \* 8 DynamicContainer, 9 TypeDef for 5, 10 a struct, 11 a struct
           \* with base 10
           [idents |-> <<N32(0)>>,
            external_types |-> <<N32(0)>>,
            internal_types |->
                <<N32(11)>>
                \o PrimitiveItems(1, NAME_SLONG, 4)
                \o <<Raw(DTTY_MAGIC), N32(2), Str(<<69, 52>>), N32(0),
                     N32(MAGIC_Enum), N32(4)>>
                \o <<Raw(DTTY_MAGIC), N32(3), Str(<<69, 50>>), N32(0),
                     N32(MAGIC_Enum), N32(2)>>
                \o <<Raw(DTTY_MAGIC), N32(4), Str(<<80>>), N32(0),
                     N32(MAGIC_Pointer), N32(1)>>
                \o <<Raw(DTTY_MAGIC), N32(5), Str(<<65>>), N32(0),
                     N32(MAGIC_Array), N32(1), Raw(ADIM_MAGIC), N32(1), N32(2)>>
                \o <<Raw(DTTY_MAGIC), N32(6), Str(NAME_CSyncedSLONG), N32(0),
                     N32(MAGIC_Struct), N32(-1), Raw(STMB_MAGIC), N32(0)>>
                \o <<Raw(DTTY_MAGIC), N32(7), Str(<<83>>), N32(0),
                     N32(MAGIC_StaticStackArray), N32(1)>>
                \o <<Raw(DTTY_MAGIC), N32(8), Str(<<67>>), N32(0),
                     N32(MAGIC_DynamicContainer), N32(1)>>
                \o <<Raw(DTTY_MAGIC), N32(9), Str(<<84>>), N32(0),
                     N32(MAGIC_TypeDef), N32(5)>>
                \o <<Raw(DTTY_MAGIC), N32(10), Str(<<66>>), N32(0),
                     N32(MAGIC_Struct), N32(-1), Raw(STMB_MAGIC), N32(3),
                     N32(0), N32(2), N32(1), N32(3), N32(2), N32(4)>>
                \o <<Raw(DTTY_MAGIC), N32(11), Str(<<68>>), N32(0),
                     N32(MAGIC_Struct), N32(10), Raw(STMB_MAGIC), N32(4),
                     N32(0), N32(9), N32(1), N32(6), N32(2), N32(7), N32(3), N32(8)>>,
            internal_object_types |-> <<N32(2), N32(0), N32(11), N32(1), N32(6)>>,
            internal_objects |->
                <<N32(2),
                  N32(0), N32(11),
                      N32(2), Raw(<<1, 0>>), N32(-1),
                      N32(5), N32(6),
                      N32(-7),
                      Raw(SSAR_MAGIC), N32(2), N32(1), N32(2),
                      Raw(DCON_MAGIC), N32(1), N32(9),
                  N32(1), N32(6), N32(-7)>>,
            counts |-> <<0, 0, 11, 2>>]
      [] name = "duplicate" ->
           \* two definitions of type 1: SLONG, then UBYTE
           [idents |-> <<N32(0)>>,
            external_types |-> <<N32(0)>>,
            internal_types |->
                <<N32(2)>> \o PrimitiveItems(1, NAME_SLONG, 4)
                           \o PrimitiveItems(1, NAME_UBYTE, 1),
            internal_object_types |-> <<N32(1), N32(0), N32(1)>>,
            internal_objects |-> <<N32(1), N32(0), N32(1), Raw(<<7>>)>>,
            counts |-> <<0, 0, 2, 1>>]
      [] name = "external" ->
           \* an object of a type that only EXTY names
           [idents |-> <<N32(0)>>,
            external_types |-> <<N32(1), N32(100), Str(<<69, 120, 116>>)>>,
            internal_types |-> <<N32(0)>>,
            internal_object_types |-> <<N32(1), N32(0), N32(100)>>,
            internal_objects |-> <<N32(1), N32(0), N32(100), N32(5)>>,
            counts |-> <<0, 1, 0, 1>>]
      [] name = "cycle" ->
           \* a TypeDef for itself
           [idents |-> <<N32(0)>>,
            external_types |-> <<N32(0)>>,
            internal_types |->
                <<N32(1), Raw(DTTY_MAGIC), N32(1), Str(<<84>>), N32(0),
                  N32(MAGIC_TypeDef), N32(1)>>,
            internal_object_types |-> <<N32(1), N32(0), N32(1)>>,
            internal_objects |-> <<N32(1), N32(0), N32(1), N32(5)>>,
            counts |-> <<0, 0, 1, 1>>]
      [] name = "rows" ->
           \* an Array with two rows
           [idents |-> <<N32(0)>>,
            external_types |-> <<N32(0)>>,
            internal_types |->
                <<N32(2)>> \o PrimitiveItems(1, NAME_SLONG, 4)
                \o <<Raw(DTTY_MAGIC), N32(5), Str(<<65>>), N32(0),
                     N32(MAGIC_Array), N32(1), Raw(ADIM_MAGIC), N32(2), N32(1)>>,
            internal_object_types |-> <<N32(0)>>,
            internal_objects |-> <<N32(0)>>,
            counts |-> <<0, 0, 2, 0>>]

\* files for the lookups of read_type: a type id that only EXTY names (100)
\* or that nothing defines (77), where read_type comes to it or does not
TypeScenarioNames ==
    {"unknown", "array of external", "stack array of unknown", "base external",
     "member unknown", "typedef external", "second object unknown",
     "empty array of unknown", "empty stack array of unknown",
     "pointer to unknown", "container of unknown", "not a number"}

\* one type definition besides SLONG (1), and the objects
TypeScenario(name) ==
    LET Types(definition) ==
            <<N32(2)>> \o PrimitiveItems(1, NAME_SLONG, 4)
                \o <<Raw(DTTY_MAGIC), N32(5), Str(<<84>>), N32(0)>> \o definition
        Of(definition, type, body) ==
            [idents |-> <<N32(0)>>,
             external_types |-> <<N32(1), N32(100), Str(<<69, 120, 116>>)>>,
             internal_types |-> Types(definition),
             internal_object_types |-> <<N32(1), N32(0), N32(type)>>,
             internal_objects |-> <<N32(1), N32(0), N32(type)>> \o body,
             counts |-> <<0, 1, 2, 1>>]
        Struct(base, members) ==
            <<N32(MAGIC_Struct), N32(base), Raw(STMB_MAGIC)>> \o members
    IN  CASE name = "unknown" ->
               Of(<<N32(MAGIC_Pointer), N32(1)>>, 77, <<N32(5)>>)
          [] name = "array of external" ->
               Of(<<N32(MAGIC_Array), N32(100), Raw(ADIM_MAGIC), N32(1), N32(2)>>,
                  5, <<N32(5), N32(6)>>)
          [] name = "stack array of unknown" ->
               Of(<<N32(MAGIC_StaticStackArray), N32(77)>>,
                  5, <<Raw(SSAR_MAGIC), N32(1), N32(5)>>)
          [] name = "base external" ->
               Of(Struct(100, <<N32(1), N32(0), N32(1)>>), 5, <<N32(5), N32(6)>>)
          [] name = "member unknown" ->
               Of(Struct(-1, <<N32(2), N32(0), N32(1), N32(1), N32(77)>>),
                  5, <<N32(5), N32(6)>>)
          [] name = "typedef external" ->
               Of(<<N32(MAGIC_TypeDef), N32(100)>>, 5, <<N32(5)>>)
          [] name = "second object unknown" ->
               [Of(<<N32(MAGIC_Pointer), N32(1)>>, 1, <<>>) EXCEPT
                   !.internal_object_types =
                       <<N32(2), N32(0), N32(1), N32(1), N32(77)>>,
                   !.internal_objects =
                       <<N32(2), N32(0), N32(1), N32(5), N32(1), N32(77), N32(6)>>,
                   !.counts = <<0, 1, 2, 2>>]
          [] name = "empty array of unknown" ->
               Of(<<N32(MAGIC_Array), N32(77), Raw(ADIM_MAGIC), N32(1), N32(0)>>,
                  5, <<>>)
          [] name = "empty stack array of unknown" ->
               Of(<<N32(MAGIC_StaticStackArray), N32(100)>>,
                  5, <<Raw(SSAR_MAGIC), N32(0)>>)
          [] name = "pointer to unknown" ->
               Of(<<N32(MAGIC_Pointer), N32(77)>>, 5, <<N32(3)>>)
          [] name = "container of unknown" ->
               Of(<<N32(MAGIC_DynamicContainer), N32(100)>>,
                  5, <<Raw(DCON_MAGIC), N32(1), N32(3)>>)
          [] name = "not a number" ->
               \* a FLOAT whose bits are those of a NaN, 0x7FC00000
               [Of(<<N32(MAGIC_Primitive), N32(4), N32(0)>>, 5, <<N32(2143289344)>>)
                   EXCEPT !.internal_types =
                       <<N32(2)>> \o PrimitiveItems(1, NAME_SLONG, 4)
                           \o PrimitiveItems(5, NAME_FLOAT, 4)]

\* files for the decoding of values: Struct and CSyncedSLONG, a primitive
\* of a name read_type does not know, arrays, chains of TypeDef, and type
\* tables in which a definition refers back to itself
ValueScenarioNames ==
    {"synced with member", "blob then values", "array of ubyte", "typedef chain",
     "long typedef chain", "typedef cycle of two", "base cycle", "member cycle",
     "array cycle", "stack array cycle"}

\* a type definition: DTTY, id, name, format, and the items of its Type
TypeItems(id, name, type) ==
    <<Raw(DTTY_MAGIC), N32(id), Str(name), N32(0)>> \o type

\* a file of the given type definitions and objects; an object is its Type
\* and the items of its value
ValueFile(types, objects) ==
    [idents |-> <<N32(0)>>,
     external_types |-> <<N32(0)>>,
     internal_types |-> <<N32(Len(types))>> \o Concat(types),
     internal_object_types |->
         <<N32(Len(objects))>>
         \o Concat([i \in 1..Len(objects) |-> <<N32(i - 1), N32(objects[i].Type)>>]),
     internal_objects |->
         <<N32(Len(objects))>>
         \o Concat([i \in 1..Len(objects) |->
                       <<N32(i - 1), N32(objects[i].Type)>> \o objects[i].body]),
     counts |-> <<0, 0, Len(types), Len(objects)>>]

ValueScenario(name) ==
    LET T == <<84>>
        SLONG == PrimitiveItems(1, NAME_SLONG, 4)
        Struct(base, members) ==
            <<N32(MAGIC_Struct), N32(base), Raw(STMB_MAGIC), N32(Len(members))>>
            \o Concat([k \in 1..Len(members) |-> <<N32(k - 1), N32(members[k])>>])
        Array(of, cols) ==
            <<N32(MAGIC_Array), N32(of), Raw(ADIM_MAGIC), N32(1), N32(cols)>>
        TypeDef(for) == <<N32(MAGIC_TypeDef), N32(for)>>
        Object(type, body) == [Type |-> type, body |-> body]
    IN  CASE name = "synced with member" ->
               \* 5 is a CSyncedSLONG with a member, 6 one without
               ValueFile(<<SLONG,
                           TypeItems(5, NAME_CSyncedSLONG, Struct(-1, <<1>>)),
                           TypeItems(6, NAME_CSyncedSLONG, Struct(-1, <<>>))>>,
                         <<Object(5, <<N32(-7)>>), Object(6, <<N32(-7)>>)>>)
          [] name = "blob then values" ->
               \* 5 is a primitive "Blob" of 3 bytes, 6 a struct of a Blob
               \* and an SLONG
               ValueFile(<<SLONG,
                           PrimitiveItems(5, <<66, 108, 111, 98>>, 3),
                           TypeItems(6, T, Struct(-1, <<5, 1>>))>>,
                         <<Object(6, <<Raw(<<1, 2, 3>>), N32(-7)>>),
                           Object(5, <<Raw(<<4, 5, 6>>)>>),
                           Object(1, <<N32(9)>>)>>)
          [] name = "array of ubyte" ->
               \* 5 is four UBYTE, 6 two of 5, 7 no SLONG at all
               ValueFile(<<SLONG,
                           PrimitiveItems(2, NAME_UBYTE, 1),
                           TypeItems(5, T, Array(2, 4)),
                           TypeItems(6, T, Array(5, 2)),
                           TypeItems(7, T, Array(1, 0))>>,
                         <<Object(5, <<Raw(<<1, 2, 3, 4>>)>>),
                           Object(6, <<Raw(<<1, 2, 3, 4, 5, 6, 7, 8>>)>>),
                           Object(7, <<>>),
                           Object(1, <<N32(9)>>)>>)
          [] name = "typedef chain" ->
               \* 5 is a TypeDef for 6, 6 a TypeDef for SLONG
               ValueFile(<<SLONG, TypeItems(5, T, TypeDef(6)),
                           TypeItems(6, T, TypeDef(1))>>,
                         <<Object(5, <<N32(-7)>>), Object(1, <<N32(-7)>>)>>)
          [] name = "long typedef chain" ->
               \* 11 is a TypeDef for 12, ..., the last of MaxStackDepth
               \* TypeDefs one for SLONG
               ValueFile(<<SLONG>>
                         \o [k \in 1..MaxStackDepth |->
                                TypeItems(10 + k, T,
                                          TypeDef(IF k = MaxStackDepth THEN 1
                                                  ELSE 11 + k))],
                         <<Object(1, <<N32(-7)>>), Object(11, <<N32(-7)>>)>>)
          [] name = "typedef cycle of two" ->
               ValueFile(<<SLONG, TypeItems(5, T, TypeDef(6)),
                           TypeItems(6, T, TypeDef(5))>>,
                         <<Object(1, <<N32(9)>>), Object(5, <<N32(-7)>>)>>)
          [] name = "base cycle" ->
               ValueFile(<<SLONG, TypeItems(5, T, Struct(5, <<1>>))>>,
                         <<Object(5, <<N32(-7)>>)>>)
          [] name = "member cycle" ->
               ValueFile(<<SLONG, TypeItems(5, T, Struct(-1, <<5, 1>>))>>,
                         <<Object(5, <<N32(-7)>>)>>)
          [] name = "array cycle" ->
               ValueFile(<<SLONG, TypeItems(5, T, Array(5, 1))>>,
                         <<Object(5, <<N32(-7)>>)>>)
          [] name = "stack array cycle" ->
               \* a StaticStackArray of itself: every level reads SSAR and
               \* a count
               ValueFile(<<SLONG, TypeItems(5, T, <<N32(MAGIC_StaticStackArray), N32(5)>>)>>,
                         <<Object(5, <<Raw(SSAR_MAGIC), N32(1), Raw(SSAR_MAGIC), N32(1),
                                       Raw(SSAR_MAGIC), N32(0)>>)>>)

HeaderNames == {"version 1", "version 2"}
HeaderItems(name) ==
    <<Raw(CTSEMETA_MAGIC), N32(ENDIANNESS_COOKIE)>>
    \o (IF name = "version 1" THEN <<N32(1)>> ELSE <<N32(2), Str(<<118, 49>>)>>)

\* what the INFO section of the file holds: the counts of the file's
\* sections, or values that are not
InfoNames == {"derived", "not stripped", "other counts"}
InfoItems(name, counts) ==
    <<Raw(INFO_MAGIC)>>
    \o CASE name = "derived" ->
              <<N32(1), N32(0), N32(counts[1]), N32(counts[2] + counts[3]),
                N32(counts[4])>>
         [] name = "not stripped" ->
              <<N32(0), N32(0), N32(counts[1]), N32(counts[2] + counts[3]),
                N32(counts[4])>>
         [] name = "other counts" -> <<N32(1), N32(5), N32(6), N32(7), N32(8)>>

\* "plain" is a file of the thirteen sections; the others differ from it in
\* one place
ShapeNames ==
    {"plain", "trailing", "truncated", "bad magic", "messages", "resource_files",
     "external_objects", "edit_object_types", "edit_objects"}

ReservedCount(shape, section) == IF shape = section THEN 1 ELSE 0

FileItems(head, info, scenario, shape) ==
    LET sc == IF scenario \in ScenarioNames THEN Scenario(scenario)
              ELSE IF scenario \in TypeScenarioNames THEN TypeScenario(scenario)
              ELSE ValueScenario(scenario)
    IN  HeaderItems(head)
        \o <<Raw(MSGS_MAGIC), N32(ReservedCount(shape, "messages"))>>
        \o InfoItems(info, sc.counts)
        \o <<Raw(RFIL_MAGIC), N32(ReservedCount(shape, "resource_files"))>>
        \o <<Raw(IDNT_MAGIC)>> \o sc.idents
        \o <<Raw(IF shape = "bad magic" THEN <<69, 88, 84, 88>> ELSE EXTY_MAGIC)>>
        \o sc.external_types
        \o <<Raw(INTY_MAGIC)>> \o sc.internal_types
        \o <<Raw(EXOB_MAGIC), N32(ReservedCount(shape, "external_objects"))>>
        \o <<Raw(OBTY_MAGIC)>> \o sc.internal_object_types
        \o <<Raw(EDTY_MAGIC), N32(ReservedCount(shape, "edit_object_types"))>>
        \o <<Raw(OBJS_MAGIC)>> \o sc.internal_objects
        \o <<Raw(EDOB_MAGIC), N32(ReservedCount(shape, "edit_objects"))>>
        \o (IF shape = "truncated" THEN <<Raw(<<77, 69, 84, 65, 69, 78, 68>>)>>
            ELSE <<Raw(METAEND_MAGIC)>>)
        \o (IF shape = "trailing" THEN <<Raw(<<0>>)>> ELSE <<>>)

MetaInputs(e) ==
    {FileBytes(FileItems(head, info, scenario, shape), e) :
        head \in HeaderNames, info \in InfoNames,
        scenario \in ScenarioNames, shape \in ShapeNames}

\* the other endianness
OtherEndian(e) == IF e = "Big" THEN "Little" ELSE "Big"

\* the stream s with other four bytes after the "CTSEMETA" magic
WithCookie(s, bytes) ==
    [i \in 1..Len(s) |-> IF i > 8 /\ i <= 12 THEN bytes[i - 8] ELSE s[i]]

\* files whose cookie is not that of endianness e: files written under the
\* other endianness, and files of e with another cookie
CookieInputs(e) ==
    {FileBytes(FileItems(head, "derived", scenario, "plain"), OtherEndian(e)) :
        head \in HeaderNames, scenario \in ScenarioNames}
    \cup
    {WithCookie(FileBytes(FileItems(head, "derived", scenario, "plain"), e), cookie) :
        head \in HeaderNames, scenario \in {"empty", "composites"},
        cookie \in {<<0, 0, 0, 0>>,
                    to_endian_bytes(e, ENDIANNESS_COOKIE + 1),
                    to_endian_bytes(OtherEndian(e), ENDIANNESS_COOKIE)}}

\* the literals of the thirteen sections of a file, in the file's order
SectionLiterals ==
    <<CTSEMETA_MAGIC, MSGS_MAGIC, INFO_MAGIC, RFIL_MAGIC, IDNT_MAGIC, EXTY_MAGIC,
      INTY_MAGIC, EXOB_MAGIC, OBTY_MAGIC, EDTY_MAGIC, OBJS_MAGIC, EDOB_MAGIC,
      METAEND_MAGIC>>

\* the index of the literal of section k among the items of a file
LiteralIndex(items, k) ==
    LET Is(i) == items[i].k = "raw" /\ items[i].v = SectionLiterals[k]
    IN  CHOOSE i \in 1..Len(items) : Is(i) /\ \A j \in 1..(i - 1) : ~Is(j)

DamageNames == {"altered", "missing", "swapped", "cut", "cut inside"}

\* a file whose k-th literal is altered (its last byte is another), missing
\* (the section's body follows the section before), swapped with the
\* literal of the next section, or where the file ends (at the literal, or
\* two bytes into it)
Damaged(items, k, damage) ==
    LET at == LiteralIndex(items, k)
        literal == SectionLiterals[k]
        before == SubSeq(items, 1, at - 1)
        after == SubSeq(items, at + 1, Len(items))
    IN  CASE damage = "altered" ->
               before \o <<Raw([literal EXCEPT ![Len(literal)] = 33])>> \o after
          [] damage = "missing" -> before \o after
          [] damage = "swapped" ->
               LET other == IF k = LAST_SECTION THEN k - 1 ELSE k + 1
               IN  [i \in 1..Len(items) |->
                        IF i = at THEN Raw(SectionLiterals[other])
                        ELSE IF i = LiteralIndex(items, other) THEN items[at]
                        ELSE items[i]]
          [] damage = "cut" -> before
          [] damage = "cut inside" -> before \o <<Raw(SubSeq(literal, 1, 2))>>

LiteralInputs(e) ==
    {FileBytes(Damaged(FileItems("version 2", "derived", scenario, "plain"),
                       k, damage), e) :
        scenario \in {"empty", "primitives"}, k \in 1..LAST_SECTION,
        damage \in DamageNames}

TypeInputs(e) ==
    {FileBytes(FileItems("version 2", "derived", scenario, "plain"), e) :
        scenario \in TypeScenarioNames}

ValueInputs(e) ==
    {FileBytes(FileItems("version 2", "derived", scenario, "plain"), e) :
        scenario \in ValueScenarioNames}

----------------------------------------------------------------------------
(* The JSON bridge: serde's derived Serialize and Deserialize of CTSEMeta, *)
(* written by serde_json::to_writer_pretty and read by                     *)
(* serde_json::from_reader.  The JSON tree of a value has the value's      *)
(* shape; integers, strings, byte arrays, () (null) and Option (null or    *)
(* the value) are written and read back as they are.  An f32 is written as *)
(* a number when it is finite, and as null when it is a NaN or an          *)
(* infinity; null is not read back as an f32.                              *)

\* f32::is_finite of a bit pattern held as an i32: the exponent is not 255
f32_is_finite(bits) ==
    LET magnitude == IF bits >= 0 THEN bits ELSE (bits + 2147483647) + 1
    IN  magnitude \div 8388608 < 255

\* Serialize for InternalObjectDataValue: a FLOAT's payload is Some(number)
\* or None for null
RECURSIVE value_to_json(_)
value_to_json(value) ==
    CASE value.tag = "FLOAT" ->
           [tag |-> "FLOAT",
            v |-> IF f32_is_finite(value.v) THEN Some(value.v) ELSE None]
      [] value.tag \in {"Array", "StaticStackArray"} ->
           [tag |-> value.tag,
            v |-> [i \in 1..Len(value.v) |-> value_to_json(value.v[i])]]
      [] value.tag = "Struct" ->
           [tag |-> "Struct",
            Base |-> IF IsSome(value.Base)
                     THEN Some(value_to_json(Unwrap(value.Base))) ELSE None,
            members |-> [i \in 1..Len(value.members) |->
                            value_to_json(value.members[i])]]
      [] OTHER -> value

\* Deserialize for InternalObjectDataValue fails on a FLOAT that is null
RECURSIVE json_is_value(_)
json_is_value(json) ==
    CASE json.tag = "FLOAT" -> IsSome(json.v)
      [] json.tag \in {"Array", "StaticStackArray"} ->
           \A i \in 1..Len(json.v) : json_is_value(json.v[i])
      [] json.tag = "Struct" ->
           /\ IsSome(json.Base) => json_is_value(Unwrap(json.Base))
           /\ \A i \in 1..Len(json.members) : json_is_value(json.members[i])
      [] OTHER -> TRUE

RECURSIVE value_from_json(_)
value_from_json(json) ==
    CASE json.tag = "FLOAT" -> [tag |-> "FLOAT", v |-> Unwrap(json.v)]
      [] json.tag \in {"Array", "StaticStackArray"} ->
           [tag |-> json.tag,
            v |-> [i \in 1..Len(json.v) |-> value_from_json(json.v[i])]]
      [] json.tag = "Struct" ->
           [tag |-> "Struct",
            Base |-> IF IsSome(json.Base)
                     THEN Some(value_from_json(Unwrap(json.Base))) ELSE None,
            members |-> [i \in 1..Len(json.members) |->
                            value_from_json(json.members[i])]]
      [] OTHER -> json

\* serde_json::to_writer_pretty(.., &ctsemeta)
to_json(m) ==
    [m EXCEPT !.internal_objects =
        [i \in 1..Len(@) |-> [@[i] EXCEPT !.value = value_to_json(@)]]]

\* serde_json::from_reader: the value, or the error of the first value that
\* is not read
from_json(json) ==
    IF \A i \in 1..Len(json.internal_objects) :
           json_is_value(json.internal_objects[i].value)
    THEN Parsed([json EXCEPT !.internal_objects =
                    [i \in 1..Len(@) |-> [@[i] EXCEPT !.value = value_from_json(@)]]],
                0)
    ELSE Failed("invalid type: null, expected f32", 0)

----------------------------------------------------------------------------
(* The runs of the tool on a CTSEMETA file: extract --json reads the file  *)
(* and writes the JSON tree, the tree is edited, create --json reads the   *)
(* tree and writes the file, and the tool is run on the file written.      *)

\* The number of runs of extract on a file and the files made from it.
MaxRuns == 2

\* read_options returns the error of the read that failed
MetaReadFails(r) ==
    /\ m_result' = Some([ok |-> FALSE, pos |-> r.pos, err |-> r.err])
    /\ m_pc' = "Done"
    /\ UNCHANGED <<m_pos, m_section, m_fields, m_vec, m_info, m_value>>

\* a field has been read: the next one is read, or, after the last,
\* read_options returns the value
MetaFieldRead(value, pos) ==
    /\ m_pos' = pos
    /\ m_vec' = None
    /\ m_fields' = Append(m_fields, value)
    /\ IF m_section = LAST_SECTION
       THEN /\ m_result' = Some([ok |-> TRUE, pos |-> pos, err |-> ""])
            /\ m_info' = Some(m_fields[3])
            /\ m_value' = Some(CTSEMetaOf(m_fields))
            /\ m_pc' = "Value"
            /\ UNCHANGED m_section
       ELSE /\ m_section' = m_section + 1
            /\ UNCHANGED <<m_pc, m_result, m_info, m_value>>

\* CTSEMeta::read_options(&mut Cursor::new(..), endian, ()): the next field,
\* or the magic and the count of the next field's vector
MetaReadSection ==
    /\ m_pc = "Read"
    /\ m_vec = None
    /\ IF m_section \in VecSections
       THEN \E r \in {read_vec_head(m_input, m_pos, m_endian, VecMagic(m_section))} :
                IF ~r.ok THEN MetaReadFails(r)
                ELSE IF r.value = 0 THEN MetaFieldRead(<<>>, r.pos)
                ELSE /\ m_vec' = Some([count |-> r.value, items |-> <<>>])
                     /\ m_pos' = r.pos
                     /\ UNCHANGED <<m_pc, m_section, m_fields, m_result, m_info,
                                    m_value>>
       ELSE \E r \in {read_field(m_input, m_pos, m_endian, m_section)} :
                IF ~r.ok THEN MetaReadFails(r) ELSE MetaFieldRead(r.value, r.pos)
    /\ UNCHANGED <<m_runs, m_endian, m_input, m_json, m_edits, m_written, m_out>>
    /\ UNCHANGED <<pc, wvars, rvars, cvars>>

\* the next element of the vector being read
MetaReadElement ==
    /\ m_pc = "Read"
    /\ IsSome(m_vec)
    /\ \E r \in {read_element(m_input, m_pos, m_endian, m_section, m_fields)} :
          IF ~r.ok THEN MetaReadFails(r)
          ELSE LET vec == Unwrap(m_vec)
                   items == Append(vec.items, r.value)
               IN  IF Len(items) = vec.count THEN MetaFieldRead(items, r.pos)
                   ELSE /\ m_vec' = Some([vec EXCEPT !.items = items])
                        /\ m_pos' = r.pos
                        /\ UNCHANGED <<m_pc, m_section, m_fields, m_result, m_info,
                                       m_value>>
    /\ UNCHANGED <<m_runs, m_endian, m_input, m_json, m_edits, m_written, m_out>>
    /\ UNCHANGED <<pc, wvars, rvars, cvars>>

\* extract --json: serde_json::to_writer_pretty of the value read
MetaToJson ==
    /\ m_pc = "Value"
    /\ m_json' = Some(to_json(Unwrap(m_value)))
    /\ m_pc' = "Json"
    /\ UNCHANGED <<m_runs, m_endian, m_input, m_pos, m_section, m_fields, m_vec,
                   m_result, m_info, m_value, m_edits, m_written, m_out>>
    /\ UNCHANGED <<pc, wvars, rvars, cvars>>

\* the edits of the JSON tree that the model makes: the first five change
\* the length of a vector that Info::new counts; the others make a tree
\* that no file is read as
EditNames ==
    {"push ident", "push external type", "push resource file",
     "push external object", "clear internal objects",
     "toggle version_string", "retag value", "two rows", "push array element"}

Edited(m, edit) ==
    CASE edit = "push ident" ->
           [m EXCEPT !.idents = Append(@, [Ident |-> 9, Name |-> <<110>>])]
      [] edit = "push external type" ->
           [m EXCEPT !.external_types = Append(@, [Type |-> 101, Name |-> <<120>>])]
      [] edit = "push resource file" ->
           [m EXCEPT !.resource_files = Append(@, Unit)]
      [] edit = "push external object" ->
           [m EXCEPT !.external_objects = Append(@, Unit)]
      [] edit = "clear internal objects" ->
           [m EXCEPT !.internal_objects = <<>>]
      [] edit = "toggle version_string" ->
           [m EXCEPT !.metadata.version_string =
               IF IsSome(@) THEN None ELSE Some(<<118>>)]
      [] edit = "retag value" ->
           [m EXCEPT !.internal_objects =
               [i \in 1..Len(@) |->
                   IF i = 1 THEN [@[i] EXCEPT !.value = [tag |-> "ULONG", v |-> 7]]
                   ELSE @[i]]]
      [] edit = "two rows" ->
           [m EXCEPT !.internal_types =
               [i \in 1..Len(@) |->
                   IF @[i].Type.kind = "Array" THEN [@[i] EXCEPT !.Type.rows = 2]
                   ELSE @[i]]]
      [] edit = "push array element" ->
           \* every object that is an array with elements gets one more
           [m EXCEPT !.internal_objects =
               [i \in 1..Len(@) |->
                   IF @[i].value.tag = "Array" /\ @[i].value.v # <<>>
                   THEN [@[i] EXCEPT !.value.v = Append(@, @[1])]
                   ELSE @[i]]]

\* the JSON tree that extract wrote is edited before create reads it
MetaEdit ==
    /\ m_pc = "Json"
    /\ m_edits < MaxEdits
    /\ \E edit \in EditNames : m_json' = Some(Edited(Unwrap(m_json), edit))
    /\ m_edits' = m_edits + 1
    /\ UNCHANGED <<m_pc, m_runs, m_endian, m_input, m_pos, m_section, m_fields,
                   m_vec, m_result, m_info, m_value, m_written, m_out>>
    /\ UNCHANGED <<pc, wvars, rvars, cvars>>

\* create --json: serde_json::from_reader; an error ends the run
MetaFromJson ==
    /\ m_pc = "Json"
    /\ \E r \in {from_json(Unwrap(m_json))} :
          IF r.ok THEN m_value' = Some(r.value) /\ m_pc' = "Tree"
          ELSE m_value' = None /\ m_pc' = "Failed"
    /\ UNCHANGED <<m_runs, m_endian, m_input, m_pos, m_section, m_fields, m_vec,
                   m_result, m_info, m_json, m_edits, m_written, m_out>>
    /\ UNCHANGED <<pc, wvars, rvars, cvars>>

\* ctsemeta.write_options(&mut Cursor::new(Vec::new()), endian, ()), on the
\* value create --json read from the tree, or, in tests::round_trip, on the
\* value read_options returned
MetaWrite ==
    /\ m_pc \in {"Value", "Tree"}
    /\ m_written' = m_value
    /\ m_out' = Some(CTSEMeta_write(Unwrap(m_value), m_endian))
    /\ m_pc' = "Done"
    /\ UNCHANGED <<m_runs, m_endian, m_input, m_pos, m_section, m_fields, m_vec,
                   m_result, m_info, m_value, m_json, m_edits>>
    /\ UNCHANGED <<pc, wvars, rvars, cvars>>

\* the tool is run on the file written, under the same endianness
MetaRunAgain ==
    /\ m_pc = "Done"
    /\ IsSome(m_out)
    /\ m_runs < MaxRuns
    /\ m_runs' = m_runs + 1
    /\ m_input' = Unwrap(m_out)
    /\ m_pc' = "Read"
    /\ m_pos' = 0
    /\ m_section' = 1
    /\ m_fields' = <<>>
    /\ m_vec' = None
    /\ m_result' = None
    /\ m_info' = None
    /\ m_value' = None
    /\ m_json' = None
    /\ m_out' = None
    /\ UNCHANGED <<m_endian, m_edits, m_written>>
    /\ UNCHANGED <<pc, wvars, rvars, cvars>>

\* the signature stream is not in use
SignatureStreamIdle ==
    /\ pc = "Idle"
    /\ endian = "Little"
    /\ version = 0
    /\ sign_options = None
    /\ data = <<>>
    /\ out = <<>>
    /\ decompressed_size = 0
    /\ salt = 0
    /\ signing_info = None
    /\ block_index = 0
    /\ rng = 0
    /\ signed = {}
    /\ segments = <<>>
    /\ wdigests = <<>>
    /\ gz = <<>>
    /\ stream = <<>>
    /\ tamper = "none"
    /\ r_key_ring = {}
    /\ r_memory_stream_name = None
    /\ r_userid = None
    /\ header = [ok |-> FALSE]
    /\ verifying_info = None
    /\ position = 0
    /\ deinterleaved_data = <<>>
    /\ r_block_index = 0
    /\ warnings = <<>>
    /\ rdigests = <<>>
    /\ result = None

InitMeta ==
    /\ SignatureStreamIdle
    /\ CliIdle
    /\ m_pc = "Read"
    /\ m_runs = 1
    /\ m_endian \in Endians
    /\ m_input \in MetaInputs(m_endian) \cup CookieInputs(m_endian)
                      \cup LiteralInputs(m_endian) \cup TypeInputs(m_endian)
                      \cup ValueInputs(m_endian)
    /\ m_pos = 0
    /\ m_section = 1
    /\ m_fields = <<>>
    /\ m_vec = None
    /\ m_result = None
    /\ m_info = None
    /\ m_value = None
    /\ m_json = None
    /\ m_edits = 0
    /\ m_written = None
    /\ m_out = None

NextMeta ==
    \/ MetaReadSection
    \/ MetaReadElement
    \/ MetaToJson
    \/ MetaEdit
    \/ MetaFromJson
    \/ MetaWrite
    \/ MetaRunAgain

SpecMeta == InitMeta /\ [][NextMeta]_vars

----------------------------------------------------------------------------
(* Properties of the CTSEMETA codec.                                       *)

\* read_options returned a value
MetaAccepted == IsSome(m_result) /\ Unwrap(m_result).ok
\* write_options has written the value held
MetaWritten == m_pc = "Done" /\ IsSome(m_out)
\* the value was written as read_options returned it
MetaUnedited == m_edits = 0

\* the offset of the INFO section in a CTSEMETA stream: Metadata and
\* Messages come before it
InfoOffset(s, e) == Messages_read(s, Metadata_read(s, 0, e).pos, e).pos

\* the length of the INFO section: the magic and five u32
InfoSize == Len(INFO_MAGIC) + 5 * 4

\* EditDataStripped = 1 and the lengths of the vectors of the value m
DerivedInfo(m) ==
    [EditDataStripped |-> 1,
     ResourceFiles |-> Len(m.resource_files),
     Idents |-> Len(m.idents),
     Types |-> Len(m.internal_types) + Len(m.external_types),
     Objects |-> Len(m.internal_objects) + Len(m.external_objects)]

\* the INFO section of the input held the derived values
InputInfoIsDerived == Unwrap(m_info) = DerivedInfo(Unwrap(m_value))
\* the input ends where read_options stopped, after the METAEND magic
InputEndsAtMetaend == Unwrap(m_result).pos = Len(m_input)

\* the input up to the offset read_options stopped at, with the five values
\* of its INFO section replaced
InputWithInfo(info) ==
    LET at == InfoOffset(m_input, m_endian)
    IN  Slice(m_input, 0, at) \o Info_write(info, m_endian)
            \o Slice(m_input, at + InfoSize, Unwrap(m_result).pos)

\* C2 (as claimed): for every byte sequence B that CTSEMeta::read_options
\* accepts under endianness E, writing the value it returned under E
\* produces B byte for byte, INFO section included.
C2_MetaRoundTrip ==
    (MetaWritten /\ MetaUnedited) => Unwrap(m_out) = m_input

\* C2 (amended): for every byte sequence B that CTSEMeta::read_options
\* accepts under endianness E, writing the value it returned under E
\* produces the bytes of B up to the end of the METAEND magic with the five
\* values of the INFO section replaced by EditDataStripped = 1 and the
\* counts of the sections read; the output is B byte for byte exactly when
\* the INFO section of B holds those values and B ends with the METAEND
\* magic.
C2_MetaRoundTripUpToInfo ==
    (MetaWritten /\ MetaUnedited) =>
        /\ Unwrap(m_out) = InputWithInfo(DerivedInfo(Unwrap(m_value)))
        /\ (Unwrap(m_out) = m_input) <=> (InputInfoIsDerived /\ InputEndsAtMetaend)

\* C2 witness: a file with a type table of every kind of type and two
\* objects has been read and written back, byte for byte
C2_Witness ==
    /\ MetaWritten
    /\ MetaUnedited
    /\ Len(Unwrap(m_value).internal_types) = 11
    /\ Len(Unwrap(m_value).internal_objects) = 2
    /\ m_endian = "Big"
    /\ Unwrap(m_out) = m_input

\* C10: every CTSEMETA write emits an INFO section with
\* EditDataStripped = 1, ResourceFiles = |resource_files|,
\* Idents = |idents|, Types = |internal_types| + |external_types| and
\* Objects = |internal_objects| + |external_objects|, the lengths being
\* those of the sections written, whatever the INFO section of the input
\* that was read held.
C10_InfoDerivedOnWrite ==
    MetaWritten =>
        \E info \in {Info_read(Unwrap(m_out), InfoOffset(Unwrap(m_out), m_endian),
                               m_endian)} :
            /\ info.ok
            /\ info.value = DerivedInfo(Unwrap(m_value))

\* C10 witness: the input's INFO section said EditDataStripped = 0, a
\* resource file was added to the tree, and the INFO section written holds
\* other values than the one read
C10_Witness ==
    /\ MetaWritten
    /\ m_edits = 1
    /\ Unwrap(m_info).EditDataStripped = 0
    /\ Len(Unwrap(m_value).resource_files) = 1
    /\ Len(Unwrap(m_value).external_types) = 1
    /\ Info_read(Unwrap(m_out), InfoOffset(Unwrap(m_out), m_endian), m_endian).value
           # Unwrap(m_info)

----------------------------------------------------------------------------
(* Properties of the block digests.                                        *)

\* the bytes given for a flag: those of the name (or user id) handed to the
\* function when the flag is not zero, none when nothing was handed over
FlagBytes(flag, given) ==
    IF flag # 0 /\ IsSome(given) THEN Unwrap(given) ELSE <<>>

\* block i (from 0) of a payload cut into blocks of size
BlockOf(payload, size, i) ==
    Slice(payload, i * size, Min((i + 1) * size, Len(payload)))

\* the per-block recipe: the salted index, the name, the user id, the block
BlockRecipe(s, i, name, userid, block) ==
    to_endian_bytes(endian, BitXor(s, i + 2843, 32)) \o name \o userid \o block

\* every block digest the writer signed follows the recipe
WriterBlocksFollowRecipe ==
    \A i \in 0..(Len(wdigests) - 2) :
        wdigests[i + 2] =
            Digest(hash_method_id,
                   BlockRecipe(salt, i,
                               FlagBytes(has_memory_stream_name,
                                         Unwrap(sign_options).memory_stream_name),
                               FlagBytes(has_userid, Unwrap(sign_options).userid),
                               BlockOf(data, SIGNATURE_STREAM_BLOCK_SIZE, i)))

\* every block digest the reader verified follows the recipe
ReaderBlocksFollowRecipe ==
    \A i \in 0..(Len(rdigests) - 2) :
        rdigests[i + 2] =
            Digest(Unwrap(verifying_info).hash_method,
                   BlockRecipe(header.salt, i,
                               FlagBytes(Unwrap(header.has_memory_stream_name),
                                         r_memory_stream_name),
                               FlagBytes(Unwrap(header.has_userid), r_userid),
                               BlockOf(deinterleaved_data, header.block_size, i)))

\* C21: for block index i the digest input is (salt XOR (i + 0xB1B)) in
\* the declared endianness, then the memory-stream-name bytes whenever the
\* has_memory_stream_name flag is non-zero, then the user-id bytes whenever
\* the has_userid flag is non-zero, then the block payload, with no gate on
\* the version; the writer and the reader use this same recipe for every
\* block, so that a reader given the writer's name and user id verifies the
\* digests the writer signed.
C21_BlockDigestRecipe ==
    /\ WriterBlocksFollowRecipe
    /\ ReaderBlocksFollowRecipe
    /\ (pc = "ParseDone" /\ Unwrap(result).ok /\ SameArguments /\ tamper = "none"
        /\ rdigests # <<>>) =>
           /\ Len(rdigests) = Len(wdigests)
           /\ \A i \in 2..Len(rdigests) : rdigests[i] = wdigests[i]

\* C21 witness: a version 3 stream of three blocks signed with a name and a
\* user id, read with the same: the three block digests are the writer's
\* and hold the name, and no block signature is reported invalid
C21_Witness ==
    /\ pc = "ParseDone"
    /\ version = 3
    /\ SameArguments
    /\ tamper = "none"
    /\ has_memory_stream_name = 1
    /\ has_userid = 1
    /\ Len(rdigests) = 4
    /\ \A i \in 2..4 : rdigests[i] = wdigests[i]
    /\ rdigests[3] = <<hash_method_id>> \o to_endian_bytes(endian, BitXor(salt, 2844, 32))
                       \o <<65, 108, 108>> \o <<117, 49>>
                       \o Slice(data, SIGNATURE_STREAM_BLOCK_SIZE,
                                2 * SIGNATURE_STREAM_BLOCK_SIZE)
    /\ \A i \in 1..Len(warnings) : warnings[i].kind # "invalid signature for block"

----------------------------------------------------------------------------
(* Properties of the writer's order.                                       *)

\* s is the beginning of t
IsPrefix(s, t) == Len(s) <= Len(t) /\ s = SubSeq(t, 1, Len(s))

\* the bytes of segment k of the output
SegmentBytes(k) ==
    Slice(out, SegmentStart(segments, k), SegmentStart(segments, k) + segments[k].len)

RECURSIVE BlockPayloads(_)
\* the block payloads among the first k segments, joined in order
BlockPayloads(k) ==
    IF k = 0 THEN <<>>
    ELSE BlockPayloads(k - 1)
         \o (IF segments[k].kind = "block" THEN SegmentBytes(k) ELSE <<>>)

\* the layout the run is to produce: with a header signature and block
\* signatures once the key name has been written, without them otherwise
FullLayout ==
    IF \E k \in 1..Len(segments) : segments[k].kind = "sign_key_name"
    THEN SignedLayout(BlockCount(Len(data)))
    ELSE UnsignedLayout(BlockCount(Len(data)))

\* what has been written is the beginning of the layout, and the blocks
\* written are the beginning of the payload
WrittenInLayout ==
    /\ IsPrefix(Kinds, FullLayout)
    /\ Len(out) = SumLen(segments, Len(segments))
    /\ IsPrefix(BlockPayloads(Len(segments)), data)
    /\ WriterReturned =>
          /\ Kinds = FullLayout
          /\ BlockPayloads(Len(segments)) = data

\* a step of the writer adds to the end of the output and changes nothing
\* written before; once the writer has returned its output stays as it is
OnlyAppends ==
    /\ IsPrefix(out, out')
    /\ IsPrefix(segments, segments')
    /\ pc \notin {"WriteHeader", "WriteHeaderSig", "WriteBlock"} => out' = out

\* C22: the output of write_signature_stream_data is produced in the order
\* header fields, optional header signature, then for i = 0, 1, ... block i
\* immediately followed by block i's signature; no byte of block i+1 comes
\* before the signature of block i, nothing comes after the last block's
\* signature, no earlier byte is revisited, and the block payloads joined
\* in order are the input payload.
C22_WriterOrdering == []WrittenInLayout /\ [][OnlyAppends]_vars

\* C22 witness: a signed stream of three blocks is complete, header
\* signature first, signature after block, the last signature at the end
C22_Witness ==
    /\ WriterReturned
    /\ Kinds = <<"header", "signature_size", "sign_key_name", "header_signature",
                 "block", "block_signature", "block", "block_signature",
                 "block", "block_signature">>
    /\ BlockPayloads(Len(segments)) = data
    /\ SegmentBytes(7) = Slice(data, SIGNATURE_STREAM_BLOCK_SIZE,
                               2 * SIGNATURE_STREAM_BLOCK_SIZE)
    /\ SegmentStart(segments, 10) + segments[10].len = Len(out)

----------------------------------------------------------------------------
(* Properties of the decoding of values.  A step of the reader at an       *)
(* object of OBJS decodes it or ends the read.                             *)

\* the objects of OBJS decoded so far
ObjectsRead ==
    IF m_section = 11 /\ IsSome(m_vec) THEN Unwrap(m_vec).items
    ELSE IF Len(m_fields) >= 11 THEN m_fields[11]
    ELSE <<>>

\* the reader is at an object of OBJS
AtObject == m_pc = "Read" /\ m_section = 11 /\ IsSome(m_vec)

\* the step decodes the object at the reader's offset
ObjectDecoded == AtObject /\ Len(ObjectsRead') = Len(ObjectsRead) + 1

\* the object the step decoded, and the bytes it consumed
DecodedObject == ObjectsRead'[Len(ObjectsRead')]
ConsumedBytes == Slice(m_input, m_pos, m_pos')

\* the type table the objects are decoded under
TypesRead == TypeMap(m_fields[7])

\* the bytes of the values joined in order
RECURSIVE Encodings(_, _, _)
Encodings(values, n, e) ==
    IF n = 0 THEN <<>> ELSE Encodings(values, n - 1, e) \o write_value(values[n], e)

\* "CSyncedSLONG"
SyncedName == <<67, 83, 121, 110, 99, 101, 100, 83, 76, 79, 78, 71>>

\* every Struct in the value of type id follows the rule: a single i32 when
\* the type is named CSyncedSLONG and has no members, otherwise the value
\* of the base when Base is not -1, and then a value for every member
RECURSIVE StructsFollowRule(_, _, _, _)
StructsFollowRule(value, id, types, e) ==
    LET dt == types[id]
        ty == dt.Type
    IN  CASE ty.kind \in {"Array", "StaticStackArray"} ->
               \A i \in 1..Len(value.v) : StructsFollowRule(value.v[i], ty.Of, types, e)
          [] ty.kind = "TypeDef" -> StructsFollowRule(value, ty.For, types, e)
          [] ty.kind = "Struct" ->
               IF dt.Name = SyncedName /\ Len(ty.members) = 0
               THEN /\ value.tag = "CSyncedSLONG"
                    /\ value.v \in -2147483647..2147483647
                    /\ write_value(value, e) = to_endian_bytes(e, value.v)
               ELSE /\ value.tag = "Struct"
                    /\ IsSome(value.Base) <=> ty.Base # -1
                    /\ Len(value.members) = Len(ty.members)
                    /\ write_value(value, e) =
                           (IF ty.Base # -1 THEN write_value(Unwrap(value.Base), e)
                            ELSE <<>>)
                           \o Encodings(value.members, Len(ty.members), e)
                    /\ ty.Base # -1 =>
                           StructsFollowRule(Unwrap(value.Base), ty.Base, types, e)
                    /\ \A k \in 1..Len(ty.members) :
                           StructsFollowRule(value.members[k], ty.members[k].Type,
                                             types, e)
          [] OTHER -> TRUE

\* C23: a value of Struct type is the value of type Base first when Base is
\* not -1, then one value per member in declaration order; a Struct named
\* "CSyncedSLONG" with zero members is a single i32 instead, and one named
\* "CSyncedSLONG" with a member follows the general rule.  The bytes the
\* reader consumes for an object are the bytes of that encoding.
C23_StructValues ==
    [][ObjectDecoded =>
          /\ StructsFollowRule(DecodedObject.value, DecodedObject.Type, TypesRead,
                               m_endian)
          /\ ConsumedBytes = to_endian_bytes(m_endian, DecodedObject.Object)
                               \o to_endian_bytes(m_endian, DecodedObject.Type)
                               \o write_value(DecodedObject.value, m_endian)]_vars

\* C23 witness: of two types named CSyncedSLONG, the one with a member is
\* read as a Struct of an SLONG and the one without as the i32 -7, whose
\* big-endian bytes are FF FF FF F9
C23_Witness ==
    /\ MetaAccepted
    /\ m_runs = 1
    /\ m_endian = "Big"
    /\ Len(m_fields[7]) = 3
    /\ m_fields[7][2].Name = SyncedName /\ Len(m_fields[7][2].Type.members) = 1
    /\ m_fields[7][3].Name = SyncedName /\ Len(m_fields[7][3].Type.members) = 0
    /\ m_fields[11] =
         <<[Object |-> 0, Type |-> 5,
            value |-> [tag |-> "Struct", Base |-> None,
                       members |-> <<[tag |-> "SLONG", v |-> -7]>>]],
           [Object |-> 1, Type |-> 6, value |-> [tag |-> "CSyncedSLONG", v |-> -7]]>>
    /\ Slice(m_input, Len(m_input) - 20, Len(m_input) - 16) = <<255, 255, 255, 249>>

\* a Struct with a base is read base first: the three values of the base
\* and then the four members
BaseComesFirst ==
    /\ MetaAccepted
    /\ Len(m_fields[7]) = 11
    /\ m_fields[11][1].Type = 11
    /\ m_fields[11][1].value.Base =
         Some([tag |-> "Struct", Base |-> None,
               members |-> <<[tag |-> "SLONGEnum", v |-> 2],
                             [tag |-> "Enum", v |-> <<1, 0>>],
                             [tag |-> "Pointer", v |-> -1]>>])
    /\ Len(m_fields[11][1].value.members) = 4
    /\ m_fields[11][1].value.members[2] = [tag |-> "CSyncedSLONG", v |-> -7]

\* the names of the primitives read_type decodes by name
KnownPrimitiveNames ==
    {NAME_CString, NAME_IDENT, NAME_UBYTE, NAME_ULONG, NAME_SLONG, NAME_UQUAD,
     NAME_SQUAD, NAME_FLOAT}

\* the type id is a Primitive of a name read_type does not know
UnknownPrimitive(id, types) ==
    /\ id \in DOMAIN types
    /\ types[id].Type.kind = "Primitive"
    /\ types[id].Name \notin KnownPrimitiveNames

\* every value of an unknown primitive inside the value of type id is the
\* blob of the Bytes bytes of its type, and is written as those bytes
RECURSIVE BlobsAreOpaque(_, _, _, _)
BlobsAreOpaque(value, id, types, e) ==
    LET ty == types[id].Type
    IN  CASE UnknownPrimitive(id, types) ->
               /\ value.tag = "Primitive"
               /\ Len(value.v) = ty.Bytes
               /\ write_value(value, e) = value.v
          [] ty.kind \in {"Array", "StaticStackArray"} ->
               \A i \in 1..Len(value.v) : BlobsAreOpaque(value.v[i], ty.Of, types, e)
          [] ty.kind = "TypeDef" -> BlobsAreOpaque(value, ty.For, types, e)
          [] ty.kind = "Struct" /\ value.tag = "Struct" ->
               /\ IsSome(value.Base) =>
                      BlobsAreOpaque(Unwrap(value.Base), ty.Base, types, e)
               /\ \A k \in 1..Len(value.members) :
                      BlobsAreOpaque(value.members[k], ty.members[k].Type, types, e)
          [] OTHER -> TRUE

\* the Type of the object at the reader's offset, when the file holds it
NextObjectType ==
    IF m_pos + 8 <= Len(m_input) THEN from_endian_bytes(m_endian, m_input, m_pos + 4)
    ELSE -1

\* the reader is at an object of an unknown primitive whose bytes the file
\* holds
AtBlobObject ==
    /\ AtObject
    /\ UnknownPrimitive(NextObjectType, TypesRead)
    /\ m_pos + 8 + TypesRead[NextObjectType].Type.Bytes <= Len(m_input)

\* the unedited value of a file with an unknown primitive is written as the
\* bytes of the file
BlobFileWrittenBack ==
    (/\ MetaWritten
     /\ m_runs = 1
     /\ m_edits = 0
     /\ MetaAccepted
     /\ InputInfoIsDerived
     /\ \E id \in DOMAIN TypesRead : UnknownPrimitive(id, TypesRead))
        => IsPrefix(Unwrap(m_out), m_input)

\* C24: a Primitive of a name the reader does not know is not an error: the
\* reader takes exactly the Bytes bytes of its type as an opaque blob, the
\* values and objects after it are decoded from the offset after those
\* bytes, and the blob is written as the same bytes.
C24_UnknownPrimitiveIsOpaque ==
    /\ []BlobFileWrittenBack
    /\ [][/\ AtBlobObject => ObjectDecoded
          /\ ObjectDecoded =>
                 /\ BlobsAreOpaque(DecodedObject.value, DecodedObject.Type, TypesRead,
                                   m_endian)
                 /\ m_pos' = m_pos + 8 + Len(write_value(DecodedObject.value, m_endian))
                 /\ Slice(m_input, m_pos + 8, m_pos') =
                        write_value(DecodedObject.value, m_endian)]_vars

\* C24 witness: a struct of a 3-byte "Blob" and an SLONG, a Blob, and an
\* SLONG have been decoded one after the other, and written back as the
\* bytes of the file
C24_Witness ==
    /\ MetaWritten
    /\ m_runs = 1
    /\ m_edits = 0
    /\ Unwrap(m_out) = m_input
    /\ Len(m_fields[7]) = 3
    /\ m_fields[7][2].Name = <<66, 108, 111, 98>>
    /\ m_fields[7][2].Type.Bytes = 3
    /\ Len(m_fields[11]) = 3
    /\ m_fields[11][1].value.tag = "Struct"
    /\ m_fields[11][1].value.members[1].tag = "Primitive"
    /\ m_fields[11][1].value.members[1].v = <<1, 2, 3>>
    /\ m_fields[11][1].value.members[2].tag = "SLONG"
    /\ m_fields[11][1].value.members[2].v = -7
    /\ m_fields[11][2].value.tag = "Primitive"
    /\ m_fields[11][2].value.v = <<4, 5, 6>>
    /\ m_fields[11][3].value.tag = "SLONG"
    /\ m_fields[11][3].value.v = 9

\* an Array value is written as its elements one after the other, with no
\* count before them
WrittenAsElements(value, e) ==
    write_value(value, e) = Encodings(value.v, Len(value.v), e)

\* every Array in the value of type id, as far as the value has the shape
\* of its type, is written as its elements and, if counted, has as many
\* elements as the cols of its type
RECURSIVE ArraysHold(_, _, _, _, _)
ArraysHold(value, id, types, e, counted) ==
    IF id \notin DOMAIN types THEN TRUE
    ELSE
    LET ty == types[id].Type
    IN  CASE ty.kind = "Array" /\ value.tag = "Array" ->
               /\ WrittenAsElements(value, e)
               /\ counted => Len(value.v) = ty.cols
               /\ \A i \in 1..Len(value.v) : ArraysHold(value.v[i], ty.Of, types, e, counted)
          [] ty.kind = "StaticStackArray" /\ value.tag = "StaticStackArray" ->
               \A i \in 1..Len(value.v) : ArraysHold(value.v[i], ty.Of, types, e, counted)
          [] ty.kind = "TypeDef" -> ArraysHold(value, ty.For, types, e, counted)
          [] ty.kind = "Struct" /\ value.tag = "Struct" ->
               /\ (IsSome(value.Base) /\ ty.Base # -1) =>
                      ArraysHold(Unwrap(value.Base), ty.Base, types, e, counted)
               /\ \A k \in 1..Min(Len(value.members), Len(ty.members)) :
                      ArraysHold(value.members[k], ty.members[k].Type, types, e, counted)
          [] OTHER -> TRUE

\* every Array the step decoded is the cols values of its type, and the
\* bytes of the object are those of its value
ArraysReadByCols ==
    ObjectDecoded =>
        /\ ArraysHold(DecodedObject.value, DecodedObject.Type, TypesRead, m_endian,
                      TRUE)
        /\ Slice(m_input, m_pos + 8, m_pos') = write_value(DecodedObject.value, m_endian)

\* ArraysHold for every object of the value written
WrittenArraysHold(counted) ==
    MetaWritten =>
        LET m == Unwrap(m_written)
        IN  \A i \in 1..Len(m.internal_objects) :
                ArraysHold(m.internal_objects[i].value, m.internal_objects[i].Type,
                           TypeMap(m.internal_types), m_endian, counted)

\* C25 (as claimed): an Array value is exactly cols values of the element
\* type with no count before them, when read and when written: the number
\* of elements written for an Array value is always the cols of its type.
C25_ArrayValues ==
    /\ [][ArraysReadByCols]_vars
    /\ []WrittenArraysHold(TRUE)

\* C25 (amended): an Array value is read as exactly cols values of the
\* element type with no count before them, and every Array value is written
\* as its elements one after the other with no count before them; the
\* number of elements written is the cols of the type for every value
\* written as it was read.
C25_ArrayValuesAsRead ==
    /\ [][ArraysReadByCols]_vars
    /\ []WrittenArraysHold(m_edits = 0)

\* C25 witness: an Array of four UBYTE of the values 1, 2, 3, 4 was read
\* and is written as the bytes 01 02 03 04
C25_Witness ==
    /\ MetaWritten
    /\ m_runs = 1
    /\ m_edits = 0
    /\ Unwrap(m_out) = m_input
    /\ Len(m_fields[7]) = 5
    /\ m_fields[7][3].Type.kind = "Array"
    /\ m_fields[7][3].Type.cols = 4
    /\ m_fields[7][3].Type.Of = 2
    /\ m_fields[7][2].Name = NAME_UBYTE
    /\ Len(m_fields[11]) = 4
    /\ m_fields[11][1].value.tag = "Array"
    /\ Len(m_fields[11][1].value.v) = 4
    /\ \A k \in 1..4 : m_fields[11][1].value.v[k].tag = "UBYTE"
                       /\ m_fields[11][1].value.v[k].v = k
    /\ write_value(Unwrap(m_written).internal_objects[1].value, m_endian) = <<1, 2, 3, 4>>

\* an Array of five elements was written for a type of four
ArrayOfFiveWritten ==
    /\ MetaWritten
    /\ m_edits = 1
    /\ Len(Unwrap(m_written).internal_types) = 5
    /\ Unwrap(m_written).internal_types[3].Type.kind = "Array"
    /\ Unwrap(m_written).internal_types[3].Type.cols = 4
    /\ Unwrap(m_written).internal_objects[1].Type = 5
    /\ Unwrap(m_written).internal_objects[1].value.tag = "Array"
    /\ write_value(Unwrap(m_written).internal_objects[1].value, m_endian)
           = <<1, 2, 3, 4, 1>>

\* the type a chain of TypeDef from id ends in, following at most n of
\* them; -1 when the chain does not end within n
RECURSIVE ChainEnd(_, _, _)
ChainEnd(id, types, n) ==
    IF id \notin DOMAIN types \/ types[id].Type.kind # "TypeDef" THEN id
    ELSE IF n = 0 THEN -1
    ELSE ChainEnd(types[id].Type.For, types, n - 1)

\* the number of TypeDef from id to the type the chain ends in
RECURSIVE ChainLength(_, _)
ChainLength(id, types) ==
    IF id \notin DOMAIN types \/ types[id].Type.kind # "TypeDef" THEN 0
    ELSE 1 + ChainLength(types[id].Type.For, types)

\* the reader is at an object whose type is a chain of TypeDef that ends in
\* a type T
AtTypeDefChain ==
    /\ AtObject
    /\ NextObjectType \in DOMAIN TypesRead
    /\ TypesRead[NextObjectType].Type.kind = "TypeDef"
    /\ ChainEnd(NextObjectType, TypesRead, Cardinality(DOMAIN TypesRead)) # -1

\* what read_type returns for the value of the object at the reader's
\* offset, when the object's type is the type id
ReadAs(id) == read_type(m_input, m_pos + 8, m_endian, id, TypesRead, 1)

\* decoding the chain gives what decoding T gives: the same outcome, the
\* same offset after it, and the same value
ChainReadsAsEnd ==
    LET end == ChainEnd(NextObjectType, TypesRead, Cardinality(DOMAIN TypesRead))
        chain == ReadAs(NextObjectType)
        direct == ReadAs(end)
    IN  /\ chain.ok = direct.ok
        /\ chain.pos = direct.pos
        /\ chain.err = direct.err
        /\ chain.ok => chain.value = direct.value

\* C26: decoding a value whose type is a chain of k TypeDef ending in T
\* yields the value that decoding T yields and consumes the same bytes,
\* and the nesting depth of the decoder does not grow with k: whatever k
\* is, the decoder does with the chain what it does with T.
C26_TypeDefTransparency == AtTypeDefChain => ChainReadsAsEnd

\* a chain of TypeDef that the stack holds is transparent
ShortChainIsTransparent ==
    (AtTypeDefChain /\ ReadAs(NextObjectType).err # "StackOverflow") => ChainReadsAsEnd

\* the reader is at an object of a chain of two TypeDef for SLONG
AtChainOfTwo ==
    /\ AtTypeDefChain
    /\ ChainLength(NextObjectType, TypesRead) = 2
    /\ ReadAs(NextObjectType).ok
    /\ ReadAs(NextObjectType).value = [tag |-> "SLONG", v |-> -7]

\* the reader is at an object of a chain of MaxStackDepth TypeDef for
\* SLONG: every TypeDef is a read_type frame, the stack is exhausted, and
\* the SLONG that read_type decodes at this offset is not decoded
ChainExhaustsStack ==
    /\ AtTypeDefChain
    /\ ChainLength(NextObjectType, TypesRead) = MaxStackDepth
    /\ ReadAs(NextObjectType).err = "StackOverflow"
    /\ ReadAs(1).ok
    /\ ReadAs(1).value = [tag |-> "SLONG", v |-> -7]

\* the type read_type enters from the type id before it has consumed any
\* input: the target of a TypeDef, the base of a Struct or its first member
\* when it has no base, the element of an Array that has elements; -1 when
\* there is none
FirstNested(id, types) ==
    IF id \notin DOMAIN types THEN -1
    ELSE LET dt == types[id]
             ty == dt.Type
         IN  CASE ty.kind = "TypeDef" -> ty.For
               [] ty.kind = "Array" /\ ty.cols > 0 -> ty.Of
               [] ty.kind = "Struct"
                  /\ ~(dt.Name = NAME_CSyncedSLONG /\ ty.members = <<>>) ->
                      IF ty.Base # -1 THEN ty.Base
                      ELSE IF ty.members # <<>> THEN ty.members[1].Type
                      ELSE -1
               [] OTHER -> -1

\* following FirstNested from id for n steps never leaves the table: the
\* type refers back to itself before any input is consumed
RECURSIVE NestsForever(_, _, _)
NestsForever(id, types, n) ==
    /\ FirstNested(id, types) # -1
    /\ n > 0 => NestsForever(FirstNested(id, types), types, n - 1)

\* the reader is at an object of a type that refers back to itself, through
\* a definition of the given kind
AtCycleOf(kind) ==
    /\ AtObject
    /\ NextObjectType \in DOMAIN TypesRead
    /\ TypesRead[NextObjectType].Type.kind = kind
    /\ NestsForever(NextObjectType, TypesRead, Cardinality(DOMAIN TypesRead))

\* C29: decoding an object ends with a value or an error, for every type
\* table and every input, also when a TypeDef target, a Struct base or
\* member, or an Array element refers back to the type being decoded.
C29_DecodingTerminates ==
    AtObject =>
        LET r == ReadAs(NextObjectType)
        IN  r.ok \/ r.err # "StackOverflow"

\* decoding a type that refers back to itself before input is consumed
\* never returns: read_type recurses until the stack is exhausted
CycleExhaustsStack ==
    \A kind \in {"TypeDef", "Struct", "Array"} :
        AtCycleOf(kind) => ReadAs(NextObjectType).err = "StackOverflow"

TypeDefCycleReached == AtCycleOf("TypeDef") /\ Cardinality(DOMAIN TypesRead) = 3
ArrayCycleReached == AtCycleOf("Array")
BaseCycleReached == AtCycleOf("Struct") /\ TypesRead[NextObjectType].Type.Base # -1
MemberCycleReached == AtCycleOf("Struct") /\ TypesRead[NextObjectType].Type.Base = -1

\* a StaticStackArray of itself consumes input at every level, and is
\* decoded
StackArrayOfItselfDecoded ==
    /\ AtObject
    /\ NextObjectType \in DOMAIN TypesRead
    /\ TypesRead[NextObjectType].Type.kind = "StaticStackArray"
    /\ TypesRead[NextObjectType].Type.Of = NextObjectType
    /\ ReadAs(NextObjectType).ok

----------------------------------------------------------------------------
(* The reader's block loop: what one iteration consumes (lines 232-278)    *)

\* an iteration of the block loop after which the loop goes on
LoopIteration == pc = "ParseBlock" /\ pc' = "ParseBlock" /\ r_block_index' # r_block_index

\* C27: every iteration of the reader's block loop consumes at least one
\* byte of the body, for every header the parser accepts, so that the loop
\* ends on every finite input.
C27_BlockLoopConsumes == [][LoopIteration => position' > position]_vars

\* an iteration consumes at least one byte when block_size and
\* signature_size are not both 0
ConsumesUnlessBothZero ==
    [][LoopIteration /\ header.block_size + header.signature_size > 0
          => position' > position]_vars

\* an iteration with block_size = 0 and signature_size = 0 consumes nothing
ZeroSizesConsumeNothing ==
    [][LoopIteration /\ header.block_size = 0 /\ header.signature_size = 0
          => position' = position /\ deinterleaved_data' = deinterleaved_data]_vars

\* block_size = 0, signature_size = 0 and a non-empty body: after
\* MaxBlockIndex iterations the reader is where it began
ZeroBlockLoopSpins ==
    /\ pc = "ParseBlock"
    /\ header.block_size = 0
    /\ header.signature_size = 0
    /\ r_block_index = MaxBlockIndex
    /\ position = header.body_offset
    /\ remaining > 0

----------------------------------------------------------------------------
(* The reader's block loop: the short tail (lines 239-254)                 *)

\* the reader is about to run an iteration of the block loop
AtLoopIteration == pc = "ParseBlock" /\ remaining # 0

\* C28: in every iteration of the reader's block loop the length of the
\* block payload, block_size or remaining - signature_size, is not
\* negative: no iteration computes a negative or wrapped-around length.
C28_ShortTailNonNegative == AtLoopIteration => BlockDataLen >= 0

\* the length is negative exactly when the body's rest is shorter than a
\* signature
NegativeWhenRestBelowSignature ==
    AtLoopIteration => (BlockDataLen < 0 <=> remaining < header.signature_size)

\* the streams the writer made never have such a rest
WrittenStreamsHaveWholeSignatures ==
    AtLoopIteration /\ tamper = "none" => BlockDataLen >= 0

\* the reader has stopped in the block loop at a rest shorter than a signature
StoppedAtShortRest(kind) ==
    /\ pc = "ParseDone"
    /\ header.ok
    /\ IsSome(result)
    /\ ~Unwrap(result).ok
    /\ remaining # 0
    /\ remaining < header.signature_size
    /\ Unwrap(result).kind = kind

\* a stream that lost the end of its last block signature: the subtraction
\* of line 247 panics in a build with overflow checks
TruncatedSignaturePanics == tamper = "truncate" /\ StoppedAtShortRest("panic")

\* the same stream in a build without: the length wraps and read_exact
\* fails at the end of the file
TruncatedSignatureWraps == tamper = "truncate" /\ StoppedAtShortRest("error")

\* a rest shorter than a signature only ever ends in one of the two
ShortRestOutcomes ==
    [][AtLoopIteration /\ BlockDataLen < 0
          => StoppedAtShortRest("panic")' \/ StoppedAtShortRest("error")']_vars

----------------------------------------------------------------------------
(* Properties of the CTSEMETA reader's checks.                             *)

\* read_options has returned: a value or an error
ReadReturned == IsSome(m_result)
\* read_options has returned an error
ReadFailed == ReadReturned /\ ~Unwrap(m_result).ok

\* the four bytes that decode to 0x1234ABCD under endianness e
CookieBytes(e) == IF e = "Big" THEN <<18, 52, 171, 205>> ELSE <<205, 171, 52, 18>>

\* the four bytes after the "CTSEMETA" magic of s decode to 0x1234ABCD under e
CookieDecodes(s, e) == Len(s) >= 12 /\ Slice(s, 8, 12) = CookieBytes(e)

\* C11: in every CTSEMETA stream written under endianness E the four bytes
\* after the "CTSEMETA" magic decode to 0x1234ABCD under E, and a read under
\* E of a stream whose four bytes after the magic do not decode to
\* 0x1234ABCD under E returns an error and no value, as for a stream
\* written under the other endianness.
C11_EndianCookie ==
    /\ MetaWritten => CookieDecodes(Unwrap(m_out), m_endian)
    /\ (ReadReturned /\ ~CookieDecodes(m_input, m_endian)) =>
           /\ ReadFailed
           /\ m_value = None

\* C11 witness: a file written under the other endianness was refused at
\* its cookie
C11_Witness ==
    /\ ReadFailed
    /\ Unwrap(m_result).err = "BadMagic"
    /\ Unwrap(m_result).pos = 8
    /\ m_value = None
    /\ CookieDecodes(m_input, OtherEndian(m_endian))
    /\ m_input = FileBytes(FileItems("version 2", "derived", "composites", "plain"),
                           OtherEndian(m_endian))

\* the reader is about to read the section m_section, at offset m_pos
AtSection == m_pc = "Read" /\ m_vec = None

\* the stream ends before the literal of the section read next does
LiteralCutOff == Len(m_input) < m_pos + Len(SectionLiterals[m_section])

\* the literal of the section read next is at the reader's offset
LiteralPresent ==
    /\ ~LiteralCutOff
    /\ Slice(m_input, m_pos, m_pos + Len(SectionLiterals[m_section]))
           = SectionLiterals[m_section]

\* the bytes write_options emits for the section k of the value m
SectionBytes(m, k, e) ==
    CASE k = 1 -> Metadata_write(m.metadata, e)
      [] k = 2 -> Messages_write(m.messages, e)
      [] k = 3 -> Info_write(DerivedInfo(m), e)
      [] k = 4 -> ResourceFiles_write(m.resource_files, e)
      [] k = 5 -> Idents_write(m.idents, e)
      [] k = 6 -> ExternalTypes_write(m.external_types, e)
      [] k = 7 -> InternalTypes_write(m.internal_types, e)
      [] k = 8 -> ExternalObjects_write(m.external_objects, e)
      [] k = 9 -> InternalObjectTypes_write(m.internal_object_types, e)
      [] k = 10 -> EditObjectTypes_write(m.edit_object_types, e)
      [] k = 11 -> InternalObjects_write(m.internal_objects, e)
      [] k = 12 -> EditObjects_write(m.edit_objects, e)
      [] k = 13 -> METAEND_MAGIC

\* the offset of section k in what write_options emits for m: the lengths
\* of the sections before it
SectionOffset(m, k, e) == SumLen([j \in 1..(k - 1) |-> [len |-> Len(SectionBytes(m, j, e))]], k - 1)

\* what was written holds the thirteen literals in the order of the
\* sections, each at the head of its section, and nothing else after them
WrittenInOrder ==
    MetaWritten =>
        /\ \A k \in 1..LAST_SECTION :
              LET at == SectionOffset(Unwrap(m_written), k, m_endian)
                  literal == SectionLiterals[k]
              IN  /\ at + Len(literal) <= Len(Unwrap(m_out))
                  /\ Slice(Unwrap(m_out), at, at + Len(literal)) = literal
        /\ Len(Unwrap(m_out))
               = SectionOffset(Unwrap(m_written), LAST_SECTION + 1, m_endian)

\* the step returns the error err of offset m_pos, and no value
FailsAtLiteral(err) ==
    /\ m_pc' = "Done"
    /\ m_result' = Some([ok |-> FALSE, pos |-> m_pos, err |-> err])
    /\ m_value' = None

\* C12 (as claimed): write emits the thirteen literals in the order of the
\* sections, and a read that does not find the literal of the next section
\* at its offset (the literal is missing, altered or out of order) fails
\* with a bad-magic error and yields no value.
C12_MissingLiteralIsBadMagic ==
    /\ []WrittenInOrder
    /\ [][(AtSection /\ ~LiteralPresent) => FailsAtLiteral("BadMagic")]_vars

\* C12 (amended): write emits the thirteen literals in the order of the
\* sections; a read that comes to the offset of a section goes on only if
\* the section's literal is there, fails with a bad-magic error when other
\* bytes are there, and fails with an I/O error (unexpected end of file)
\* when the stream ends before the literal does; a read that fails yields
\* no value.
C12_SectionOrder ==
    /\ []WrittenInOrder
    /\ [][AtSection =>
            IF LiteralCutOff THEN FailsAtLiteral("Io")
            ELSE IF ~LiteralPresent THEN FailsAtLiteral("BadMagic")
            ELSE ~(ReadFailed' /\ Unwrap(m_result').pos = m_pos)]_vars

\* C12 witness: a file whose OBTY and EDTY literals are swapped was refused
\* at the offset of OBTY with a bad-magic error
C12_Witness ==
    /\ ReadFailed
    /\ Unwrap(m_result) = [ok |-> FALSE, pos |-> m_pos, err |-> "BadMagic"]
    /\ m_section = 9
    /\ m_vec = None
    /\ m_value = None
    /\ m_input = FileBytes(Damaged(FileItems("version 2", "derived", "primitives",
                                             "plain"), 9, "swapped"), m_endian)

\* the sections that are a literal and a vector asserted to be empty: MSGS,
\* RFIL, EXOB, EDTY, EDOB
ReservedSections == {2, 4, 8, 10, 12}

\* the reader is about to read a reserved section whose literal is there
\* and whose element count, the u32 after the literal, is not zero
AtNonEmptyReserved ==
    /\ AtSection
    /\ m_section \in ReservedSections
    /\ LiteralPresent
    /\ Len(m_input) >= m_pos + 8
    /\ from_endian_bytes(m_endian, m_input, m_pos + 4) # 0

\* the reader is about to read the type definition at m_pos: "DTTY", the
\* id, the Pascal name, the format, and the variant's magic
AtTypeDefinition == m_pc = "Read" /\ IsSome(m_vec) /\ m_section = 7

\* the offset of the variant's magic of the type definition at m_pos
VariantOffset == m_pos + 12 + from_endian_bytes(m_endian, m_input, m_pos + 8) + 4

\* the type definition at m_pos is an Array, Of, "ADIM", whose rows, the
\* u32 after "ADIM", is not 1
AtArrayOfOtherRows ==
    /\ AtTypeDefinition
    /\ Len(m_input) >= m_pos + 12
    /\ Len(m_input) >= VariantOffset + 16
    /\ Slice(m_input, m_pos, m_pos + 4) = DTTY_MAGIC
    /\ from_endian_bytes(m_endian, m_input, VariantOffset) = 4
    /\ Slice(m_input, VariantOffset + 8, VariantOffset + 12) = ADIM_MAGIC
    /\ from_endian_bytes(m_endian, m_input, VariantOffset + 12) # 1

\* C13: the read of a CTSEMETA stream fails, with no value, when it comes
\* to a reserved vector (MSGS, RFIL, EXOB, EDTY, EDOB) whose element count
\* is not zero, and when it comes to an Array type definition whose rows
\* is not 1.
C13_ReservedShapes ==
    [][(AtNonEmptyReserved \/ AtArrayOfOtherRows) =>
          /\ m_pc' = "Done"
          /\ ReadFailed'
          /\ m_value' = None]_vars

\* C13 witness: a file whose EDTY vector has one element was refused at
\* that section, by the assertion
C13_Witness ==
    /\ ReadFailed
    /\ Unwrap(m_result).err = "AssertFail"
    /\ m_section = 10
    /\ Len(m_fields) = 9
    /\ m_value = None
    /\ LiteralPresent
    /\ from_endian_bytes(m_endian, m_input, m_pos + 4) = 1

\* a file with an Array type definition of two rows was refused at that
\* definition
ArrayOfTwoRowsRefused ==
    /\ ReadFailed
    /\ m_section = 7
    /\ IsSome(m_vec)
    /\ Len(Unwrap(m_vec).items) = 1
    /\ m_value = None
    /\ from_endian_bytes(m_endian, m_input, VariantOffset + 12) = 2

----------------------------------------------------------------------------
(* Properties of the type-directed value codec.                            *)

\* the type ids read_type is called on while it decodes `value` as the type
\* id: id itself, and for the elements of an Array or a StaticStackArray,
\* the base and the members of a Struct and the target of a TypeDef, the
\* ids it is called on for them
RECURSIVE TypesReached(_, _, _)
TypesReached(value, id, types) ==
    {id} \cup
    IF id \notin DOMAIN types THEN {}
    ELSE LET ty == types[id].Type
         IN  CASE ty.kind \in {"Array", "StaticStackArray"} ->
                    UNION {TypesReached(value.v[i], ty.Of, types) :
                              i \in 1..Len(value.v)}
               [] ty.kind = "Struct" /\ value.tag = "Struct" ->
                    (IF IsSome(value.Base)
                     THEN TypesReached(Unwrap(value.Base), ty.Base, types) ELSE {})
                    \cup UNION {TypesReached(value.members[k], ty.members[k].Type,
                                             types) : k \in 1..Len(value.members)}
               [] ty.kind = "TypeDef" -> TypesReached(value, ty.For, types)
               [] OTHER -> {}

\* the ids of the INTY entries read
InternalTypeIds == {m_fields[7][i].DataType : i \in 1..Len(m_fields[7])}

\* the files in which the decoding of an object comes to a type id that is
\* the id of no INTY entry
UnknownTypeInputs(e) ==
    {FileBytes(FileItems("version 2", "derived", scenario, "plain"), e) :
        scenario \in {"unknown", "array of external", "stack array of unknown",
                      "base external", "member unknown", "typedef external",
                      "second object unknown"}}

\* C14: every type id that the decoding of an object comes to (the
\* object's Type, the element type of an Array or StaticStackArray with an
\* element, a Struct's base other than -1, a Struct member's type, a
\* TypeDef's target) is the id of an INTY entry in every read that returns
\* a value; a read that comes to an id that only EXTY names, or that
\* nothing defines, fails as a whole, with the objects decoded before it
\* not returned.
C14_UnknownTypeIsFatal ==
    /\ (MetaAccepted /\ Len(m_fields) = LAST_SECTION) =>
           \A i \in 1..Len(m_fields[11]) :
               TypesReached(m_fields[11][i].value, m_fields[11][i].Type,
                            TypeMap(m_fields[7])) \subseteq InternalTypeIds
    /\ (ReadReturned /\ m_input \in UnknownTypeInputs(m_endian)) =>
           /\ ReadFailed
           /\ Unwrap(m_result).err = "Tried to read external type"
           /\ m_section = 11
           /\ m_value = None

\* C14 witness: the first object of a file was decoded, the Type of the
\* second is defined nowhere, and the read failed without a value
C14_Witness ==
    /\ ReadFailed
    /\ Unwrap(m_result).err = "Tried to read external type"
    /\ m_section = 11
    /\ IsSome(m_vec)
    /\ Len(Unwrap(m_vec).items) = 1
    /\ from_endian_bytes(m_endian, m_input, m_pos + 4) = 77
    /\ m_value = None

----------------------------------------------------------------------------
(* Properties of the JSON bridge.                                          *)

\* the input is a file that write_options makes of the value read from it:
\* its INFO section holds the derived values and it ends with "METAEND "
InputIsWrittenBack ==
    /\ MetaAccepted
    /\ Len(m_fields) = LAST_SECTION
    /\ Unwrap(m_info) = DerivedInfo(CTSEMetaOf(m_fields))
    /\ InputEndsAtMetaend

\* the file was written by create --json, from the tree
WrittenFromJson == MetaWritten /\ IsSome(m_json)

\* C15 (as claimed): for every valid CTSEMETA input B, reading B,
\* serialising the value to the JSON tree, deserialising the tree as
\* extract wrote it and writing the value yields B byte for byte: the tree
\* is read (every value variant, FLOAT values of any bit pattern included,
\* survives it) and the bytes written are those of B.
C15_JsonRoundTrip ==
    (InputIsWrittenBack /\ m_edits = 0) =>
        /\ m_pc # "Failed"
        /\ WrittenFromJson => Unwrap(m_out) = m_input

\* the tree of a file that holds a FLOAT whose bits are those of a NaN was
\* not read by create --json
NotANumberIsNotRead ==
    /\ m_pc = "Failed"
    /\ m_edits = 0
    /\ InputIsWrittenBack
    /\ m_input = FileBytes(FileItems("version 2", "derived", "not a number", "plain"),
                           m_endian)

\* create --json reads every tree that extract --json wrote of a file
\* without such a FLOAT, and writes the file byte for byte
JsonRoundTripOfFiniteFloats ==
    (InputIsWrittenBack /\ m_edits = 0) =>
        /\ m_pc = "Failed" =>
               m_input = FileBytes(FileItems("version 2", "derived", "not a number",
                                             "plain"), m_endian)
        /\ WrittenFromJson => Unwrap(m_out) = m_input

\* `value` is what read_type decodes for the type id: the variant the type
\* prescribes, at every level, within the nesting the stack allows
RECURSIVE ValueConforms(_, _, _, _)
ValueConforms(value, id, types, depth) ==
    /\ depth <= MaxStackDepth
    /\ id \in DOMAIN types
    /\ LET dt == types[id]
           ty == dt.Type
           Each(values, Of(_)) ==
               \A i \in 1..Len(values) :
                   ValueConforms(values[i], Of(i), types, depth + 1)
       IN  CASE ty.kind = "Primitive" ->
                  CASE dt.Name = NAME_CString -> value.tag = "CString"
                    [] dt.Name = NAME_IDENT -> value.tag = "IDENT"
                    [] dt.Name = NAME_UBYTE -> value.tag = "UBYTE"
                    [] dt.Name = NAME_ULONG -> value.tag = "ULONG"
                    [] dt.Name = NAME_SLONG -> value.tag = "SLONG"
                    [] dt.Name = NAME_UQUAD -> value.tag = "UQUAD"
                    [] dt.Name = NAME_SQUAD -> value.tag = "SQUAD"
                    [] dt.Name = NAME_FLOAT -> value.tag = "FLOAT"
                    [] OTHER -> value.tag = "Primitive" /\ Len(value.v) = ty.Bytes
             [] ty.kind = "Enum" ->
                  IF ty.Bytes = 4 THEN value.tag = "SLONGEnum"
                  ELSE value.tag = "Enum" /\ Len(value.v) = ty.Bytes
             [] ty.kind = "Pointer" -> value.tag = "Pointer"
             [] ty.kind = "Array" ->
                  /\ value.tag = "Array"
                  /\ Len(value.v) = ty.cols
                  /\ Each(value.v, LAMBDA i : ty.Of)
             [] ty.kind = "Struct" ->
                  IF dt.Name = NAME_CSyncedSLONG /\ ty.members = <<>>
                  THEN value.tag = "CSyncedSLONG"
                  ELSE /\ value.tag = "Struct"
                       /\ IsSome(value.Base) <=> ty.Base # -1
                       /\ IsSome(value.Base) =>
                              ValueConforms(Unwrap(value.Base), ty.Base, types,
                                            depth + 1)
                       /\ Len(value.members) = Len(ty.members)
                       /\ Each(value.members, LAMBDA i : ty.members[i].Type)
             [] ty.kind = "StaticStackArray" ->
                  /\ value.tag = "StaticStackArray"
                  /\ Each(value.v, LAMBDA i : ty.Of)
             [] ty.kind = "DynamicContainer" -> value.tag = "DynamicContainer"
             [] ty.kind = "TypeDef" -> ValueConforms(value, ty.For, types, depth + 1)

\* the tree m is one that a file is read as: version_string is there iff
\* version >= 2, the reserved vectors are empty, every Array definition has
\* one row, and every object's value is what its Type prescribes
Conforms(m) ==
    /\ IsSome(m.metadata.version_string) <=> m.metadata.version >= 2
    /\ m.messages = <<>>
    /\ m.resource_files = <<>>
    /\ m.external_objects = <<>>
    /\ m.edit_object_types = <<>>
    /\ m.edit_objects = <<>>
    /\ \A i \in 1..Len(m.internal_types) :
          m.internal_types[i].Type.kind = "Array" => m.internal_types[i].Type.rows = 1
    /\ \A i \in 1..Len(m.internal_objects) :
          ValueConforms(m.internal_objects[i].value, m.internal_objects[i].Type,
                        TypeMap(m.internal_types), 1)

\* a file that write_options wrote has been read again, under the same
\* endianness
WrittenWasRead == m_runs > 1 /\ ReadReturned /\ m_out = None

----------------------------------------------------------------------------
(* Properties of the gzip member.                                          *)

\* the XLEN field of a gzip header with FEXTRA
ExtraFieldLength(member) == member[11] + 256 * member[12]

\* the sizes as write_gz_signature_stream_data computes them, little-endian
SizesOf(member) ==
    le_bytes(Len(member) - GZIP_HEADER_SIZE - GZIP_FOOTER_SIZE)
    \o le_bytes(decompressed_size)

\* "CT" and the little-endian u16 8
SubFieldHead == <<67, 84, 8, 0>>

\* C17 (as claimed): the gzip member produced by
\* write_gz_signature_stream_data has an extra field of length 12 whose
\* content, after finalize and back-patching, is four zero placeholder
\* bytes followed by the CT sub-field: "CT", little-endian u16 8,
\* little-endian u32 compressed_size, little-endian u32 decompressed_size.
C17_PlaceholderThenSubField ==
    WriterReturned =>
        /\ ExtraFieldLength(gz) = 12
        /\ Slice(gz, 12, 16) = <<0, 0, 0, 0>>
        /\ Slice(gz, 16, 28) = SubFieldHead \o SizesOf(gz)

\* C17 (amended): the gzip member produced by
\* write_gz_signature_stream_data has an extra field of length 12, twelve
\* zero bytes until finish, whose content after back-patching is exactly
\* the CT sub-field: "CT", little-endian u16 8, little-endian u32
\* compressed_size (the length of the member less the 24 bytes of its
\* header and the 8 of its trailer), little-endian u32 decompressed_size;
\* the sub-field is little-endian even when the stream endianness is big,
\* and nothing else of the member is changed by the back-patching.
C17_ExtraFieldLayout ==
    /\ pc = "Patch" =>
          /\ ExtraFieldLength(gz) = 12
          /\ Slice(gz, 12, 24) = [i \in 1..12 |-> 0]
    /\ WriterReturned =>
          /\ ExtraFieldLength(gz) = 12
          /\ Slice(gz, 12, 24) = SubFieldHead \o SizesOf(gz)
          /\ Slice(gz, 0, 12) = Slice(GzHeader, 0, 12)
          /\ Slice(gz, 24, Len(gz)) = Deflate(out) \o GzFooter(out)

\* C17 witness: a signed big-endian stream of three blocks is in a member
\* whose extra field holds the two sizes, low byte first
C17_Witness ==
    /\ WriterReturned
    /\ endian = "Big"
    /\ IsSome(signing_info)
    /\ Len(data) = 2 * SIGNATURE_STREAM_BLOCK_SIZE + 1
    /\ Slice(gz, 12, 16) = SubFieldHead
    /\ Slice(gz, 16, 20) = <<Len(out) + 5, 0, 0, 0>>
    /\ Slice(gz, 20, 24) = <<Len(out), 0, 0, 0>>
    /\ Slice(out, 12, 16) = <<0, 0, 0, version>>

\* write_signature_stream_data has returned its size
SizeReturned == pc \notin {"WriteHeader", "WriteHeaderSig", "WriteBlock"}

\* C18: the size write_signature_stream_data returns, which becomes
\* decompressed_size in the gzip extra field, is the number of bytes it
\* emitted: the sum of the lengths of the magic and header fields, the
\* signature_size field, the key name with its prefix, the header signature
\* and every block and block signature.
C18_ReturnedSizeIsBytesEmitted ==
    /\ SizeReturned =>
          /\ decompressed_size = Len(out)
          /\ decompressed_size = SumLen(segments, Len(segments))
    /\ WriterReturned => Slice(gz, 20, 24) = le_bytes(Len(out))

\* C18 witness: a signed version 5 stream of three blocks, its size returned
\* and in the extra field
C18_Witness ==
    /\ WriterReturned
    /\ version = 5
    /\ IsSome(signing_info)
    /\ Cardinality(SegmentsOfKind("block_signature")) = 3
    /\ Cardinality(SegmentsOfKind("header_signature")) = 1
    /\ decompressed_size = Len(out)
    /\ Len(out) > HeaderFieldsSize + 4 + Len(data)
    /\ Slice(gz, 20, 24) = le_bytes(decompressed_size)

----------------------------------------------------------------------------
(* Properties of the reader's header digest.                               *)

\* the reader has verified the header signature
HeaderVerified == pc \in {"ParseBlock", "ParseDone"} /\ header.ok /\ rdigests # <<>>

\* the flag was read, is not zero, and the caller gave the bytes
Present(flag, given) == IsSome(flag) /\ Unwrap(flag) # 0 /\ IsSome(given)

\* the header hash input with the memory-stream-name bytes from version
\* `gate` on
RecipeOnRead(gate) ==
    to_endian_bytes(endian, header.version)
    \o to_endian_bytes(endian, header.block_size)
    \o to_endian_bytes(endian, header.hash_method_id)
    \o to_endian_bytes(endian, header.hash_size)
    \o to_endian_bytes(endian, header.salt)
    \o (IF header.version >= 2
        THEN to_endian_bytes(endian, Unwrap(header.has_memory_stream_name))
             \o (IF header.version >= gate
                    /\ Present(header.has_memory_stream_name, r_memory_stream_name)
                 THEN Unwrap(r_memory_stream_name) ELSE <<>>)
        ELSE <<>>)
    \o (IF header.version >= 3
        THEN to_endian_bytes(endian, Unwrap(header.has_userid))
             \o (IF Present(header.has_userid, r_userid)
                 THEN Unwrap(r_userid) ELSE <<>>)
        ELSE <<>>)
    \o (IF header.version >= 5 THEN Unwrap(header.signature_related_string) ELSE <<>>)
    \o to_endian_bytes(endian, header.signature_size)
    \o Unwrap(header.signature_info).sign_key_name

\* C20: when the reader verifies the header signature it hashes version,
\* block_size, hash_method_id, hash_size, salt, then (v>=2)
\* has_memory_stream_name followed by the memory-stream-name bytes only if
\* v>=4 and a name is present, then (v>=3) has_userid followed by the
\* user-id bytes if present, then (v>=5) the signature_related_string
\* bytes, then signature_size and the key-name bytes.
C20_HeaderDigestOnRead ==
    HeaderVerified =>
        rdigests[1] = Digest(Unwrap(verifying_info).hash_method, RecipeOnRead(4))

\* a version 3 header with the flag set is verified with the name in the
\* digest
NameHashedAtVersion3 ==
    /\ HeaderVerified
    /\ header.version = 3
    /\ Present(header.has_memory_stream_name, r_memory_stream_name)
    /\ rdigests[1] # Digest(Unwrap(verifying_info).hash_method, RecipeOnRead(4))
    /\ Warning("invalid signature in header", -1) \in {warnings[i] : i \in 1..Len(warnings)}
    /\ tamper = "none"
    /\ r_memory_stream_name = Unwrap(sign_options).memory_stream_name

\* what the reader does hash: the recipe with the name at every version
\* that has the flag
HeaderDigestOnReadUngated ==
    HeaderVerified =>
        rdigests[1] = Digest(Unwrap(verifying_info).hash_method, RecipeOnRead(2))

----------------------------------------------------------------------------
(* The command line (src/src/main.rs): how extract and create settle the   *)
(* memory-stream name handed to the reader or the writer.  A file name is  *)
(* the Option that Path::file_name and OsStr::to_str give: None for a path *)
(* without a final component or one that is not UTF-8.                     *)

\* str::contains
Contains(s, pattern) ==
    \E i \in 0..(Len(s) - Len(pattern)) : Slice(s, i, i + Len(pattern)) = pattern

\* "PlayerProfile"
STR_PlayerProfile ==
    <<80, 108, 97, 121, 101, 114, 80, 114, 111, 102, 105, 108, 101>>

\* "unrestricted"
STR_unrestricted ==
    <<117, 110, 114, 101, 115, 116, 114, 105, 99, 116, 101, 100>>

\* "All"
STR_All ==
    <<65, 108, 108>>

\* "DLC"
STR_DLC ==
    <<68, 76, 67>>

\* "<memory stream:PlayerProfile_unrestricted.dat>"
NAME_PlayerProfile_unrestricted ==
    <<60, 109, 101, 109, 111, 114, 121, 32, 115, 116, 114, 101, 97, 109, 58,
    80, 108, 97, 121, 101, 114, 80, 114, 111, 102, 105, 108, 101, 95, 117,
    110, 114, 101, 115, 116, 114, 105, 99, 116, 101, 100, 46, 100, 97, 116,
    62>>

\* "<memory stream:PlayerProfile.dat>"
NAME_PlayerProfile ==
    <<60, 109, 101, 109, 111, 114, 121, 32, 115, 116, 114, 101, 97, 109, 58,
    80, 108, 97, 121, 101, 114, 80, 114, 111, 102, 105, 108, 101, 46, 100,
    97, 116, 62>>

\* "Content/Talos/All.dat"
NAME_All ==
    <<67, 111, 110, 116, 101, 110, 116, 47, 84, 97, 108, 111, 115, 47, 65,
    108, 108, 46, 100, 97, 116>>

\* "Content/Talos/DLC.dat"
NAME_DLC ==
    <<67, 111, 110, 116, 101, 110, 116, 47, 84, 97, 108, 111, 115, 47, 68,
    76, 67, 46, 100, 97, 116>>

TryGuessAllFirst(file_name) ==
    IF ~IsSome(file_name) THEN None
    ELSE LET name == Unwrap(file_name)
         IN  IF Contains(name, STR_All) THEN Some(NAME_All)
             ELSE IF Contains(name, STR_PlayerProfile)
             THEN IF Contains(name, STR_unrestricted)
                  THEN Some(NAME_PlayerProfile_unrestricted)
                  ELSE Some(NAME_PlayerProfile)
             ELSE IF Contains(name, STR_DLC) THEN Some(NAME_DLC)
             ELSE None

\* main.rs:95-111
try_guess_memory_stream_name(file_name) ==
    IF ~IsSome(file_name) THEN None
    ELSE LET name == Unwrap(file_name)
         IN  IF Contains(name, STR_PlayerProfile)
             THEN IF Contains(name, STR_unrestricted)
                  THEN Some(NAME_PlayerProfile_unrestricted)
                  ELSE Some(NAME_PlayerProfile)
             ELSE IF Contains(name, STR_All) THEN Some(NAME_All)
             ELSE IF Contains(name, STR_DLC) THEN Some(NAME_DLC)
             ELSE None

\* Option::or_else
or_else(option, other) == IF IsSome(option) THEN option ELSE other

\* bool::then(..).flatten()
then_flatten(flag, option) == IF flag THEN option ELSE None

\* main.rs:133-137: Commands::Extract settles the name; player_profile is
\* the file it reads
ExtractMemoryStreamName ==
    /\ c_pc = "Args"
    /\ c_command = "extract"
    /\ c_name' = or_else(c_memory_stream_name,
                         then_flatten(~c_flag,
                                      try_guess_memory_stream_name(c_player_profile)))
    /\ c_pc' = "Named"
    /\ UNCHANGED <<c_command, c_player_profile, c_player_profile_extracted,
                   c_memory_stream_name, c_flag>>
    /\ UNCHANGED <<pc, wvars, rvars, mvars>>

\* main.rs:184-188: Commands::Create settles the name; player_profile is
\* the file it writes
CreateMemoryStreamName ==
    /\ c_pc = "Args"
    /\ c_command = "create"
    /\ c_name' = or_else(c_memory_stream_name,
                         then_flatten(c_flag,
                                      try_guess_memory_stream_name(c_player_profile)))
    /\ c_pc' = "Named"
    /\ UNCHANGED <<c_command, c_player_profile, c_player_profile_extracted,
                   c_memory_stream_name, c_flag>>
    /\ UNCHANGED <<pc, wvars, rvars, mvars>>

\* the file names of the runs: PlayerProfile.dat, PlayerProfile_unrestricted.dat, unrestricted_PlayerProfile.bin, All.dat,
\* DLC.dat, AllDLC.dat, DLC_PlayerProfile_All.dat, playerprofile.dat,
\* unrestricted.dat, save.json
FileNameBytes ==
    {<<80, 108, 97, 121, 101, 114, 80, 114, 111, 102, 105, 108, 101, 46, 100, 97, 116>>,
     <<80, 108, 97, 121, 101, 114, 80, 114, 111, 102, 105, 108, 101, 95, 117, 110, 114, 101, 115, 116, 114, 105, 99, 116, 101, 100, 46, 100, 97, 116>>,
     <<117, 110, 114, 101, 115, 116, 114, 105, 99, 116, 101, 100, 95, 80, 108, 97, 121, 101, 114, 80, 114, 111, 102, 105, 108, 101, 46, 98, 105, 110>>,
     <<65, 108, 108, 46, 100, 97, 116>>,
     <<68, 76, 67, 46, 100, 97, 116>>,
     <<65, 108, 108, 68, 76, 67, 46, 100, 97, 116>>,
     <<68, 76, 67, 95, 80, 108, 97, 121, 101, 114, 80, 114, 111, 102, 105, 108, 101, 95, 65, 108, 108, 46, 100, 97, 116>>,
     <<112, 108, 97, 121, 101, 114, 112, 114, 111, 102, 105, 108, 101, 46, 100, 97, 116>>,
     <<117, 110, 114, 101, 115, 116, 114, 105, 99, 116, 101, 100, 46, 100, 97, 116>>,
     <<115, 97, 118, 101, 46, 106, 115, 111, 110>>}
FileNames == {None} \cup {Some(n) : n \in FileNameBytes}

\* the values of -m: absent, a name the guess can give, another
ExplicitNames == {None, Some(NAME_All), Some(<<120>>)}

InitCli ==
    /\ SignatureStreamIdle
    /\ MetaIdle
    /\ c_pc = "Args"
    /\ c_command \in {"extract", "create"}
    /\ c_player_profile \in FileNames
    /\ c_player_profile_extracted \in FileNames
    /\ c_memory_stream_name \in ExplicitNames
    /\ c_flag \in BOOLEAN
    /\ c_name = None

NextCli ==
    \/ ExtractMemoryStreamName
    \/ CreateMemoryStreamName

SpecCli == InitCli /\ [][NextCli]_vars

----------------------------------------------------------------------------
(* Properties of the command line.                                         *)

Named == c_pc = "Named"

\* the file the command reads: the first positional argument
InputFileName ==
    IF c_command = "extract" THEN c_player_profile ELSE c_player_profile_extracted

\* the file name holds the pattern
Holds(file_name, pattern) == IsSome(file_name) /\ Contains(Unwrap(file_name), pattern)

\* the guess as the claim words it
GuessFor(file_name) ==
    IF Holds(file_name, STR_PlayerProfile)
    THEN IF Holds(file_name, STR_unrestricted)
         THEN Some(NAME_PlayerProfile_unrestricted)
         ELSE Some(NAME_PlayerProfile)
    ELSE IF Holds(file_name, STR_All) THEN Some(NAME_All)
    ELSE IF Holds(file_name, STR_DLC) THEN Some(NAME_DLC)
    ELSE None

\* C19 (as claimed): in both extract and create the guessed memory-stream
\* name is determined by the command's input file name (PlayerProfile, with
\* or without unrestricted, then All, then DLC, otherwise no name), and an
\* explicit -m name takes precedence over the guess.
C19_GuessFromInputFileName ==
    Named =>
        c_name = IF IsSome(c_memory_stream_name) THEN c_memory_stream_name
                 ELSE GuessFor(InputFileName)

\* guessing is on: by default in extract (off with -n), only with -g in create
Guessing == IF c_command = "extract" THEN ~c_flag ELSE c_flag

\* C19 (amended): the guessed memory-stream name is determined by the file
\* name of the player_profile path, which is the input of extract and the
\* output of create: containing "PlayerProfile" gives
\* "<memory stream:PlayerProfile.dat>" (the "_unrestricted" variant if it
\* also contains "unrestricted"), otherwise containing "All" gives
\* "Content/Talos/All.dat", otherwise containing "DLC" gives
\* "Content/Talos/DLC.dat", otherwise no name.  Extract guesses unless -n is
\* given, create guesses only when -g is given, and an explicit -m name
\* always takes precedence over the guess.
C19_HeuristicNaming ==
    Named =>
        c_name = IF IsSome(c_memory_stream_name) THEN c_memory_stream_name
                 ELSE IF Guessing THEN GuessFor(c_player_profile)
                 ELSE None

\* C19 witness: create -g without -m, from save.json to a file named
\* DLC_PlayerProfile_All.dat, takes the PlayerProfile name
C19_Witness ==
    /\ Named
    /\ c_command = "create"
    /\ c_flag
    /\ c_memory_stream_name = None
    /\ Holds(c_player_profile, STR_DLC)
    /\ Holds(c_player_profile, STR_All)
    /\ ~Holds(c_player_profile_extracted, STR_PlayerProfile)
    /\ ~Holds(c_player_profile_extracted, STR_All)
    /\ IsSome(c_player_profile_extracted)
    /\ c_name = Some(NAME_PlayerProfile)

\* -m wins over a guess that would give another name
ExplicitNameWins ==
    /\ Named
    /\ Guessing
    /\ c_memory_stream_name = Some(<<120>>)
    /\ GuessFor(c_player_profile) = Some(NAME_DLC)
    /\ c_name = Some(<<120>>)

============================================================================
